---- MODULE Spec2Model ----
(***************************************************************************)
(* swiftctl: the run/watch orchestrator (internal/run/runner.go), the      *)
(* debounced change watcher (internal/watcher/watcher.go), the process     *)
(* executor (internal/process/runner.go) and Builder.Build                 *)
(* (internal/build/builder.go).                                            *)
(*                                                                         *)
(* Spec      : one run session: initial build cycle, then the watch loop   *)
(*             with the watcher goroutine, its timer and timer callbacks.  *)
(* SpecDebounce : the same session on a booted device, with the arrival    *)
(*             times of the filesystem events recorded (trace = TRUE).     *)
(* SpecExec  : one Process Executor invocation consumed by Builder.Build.  *)
(* FairExec  : SpecExec with the fairness the Go scheduler gives runnable  *)
(*             goroutines.                                                 *)
(* FairSpec  : Spec with the same fairness for the session's goroutines.   *)
(* SpecOrder : SpecExec with the output of each stream kept on record.     *)
(* SpecParse : one outputParser fed a sequence of lines.                   *)
(* SpecResolve : resolveDevice over a simulator list (device.Manager.Get). *)
(* SpecScheme : the scheme buildCycle passes to Build and to FindApp.      *)
(* SpecLogs  : one log process read by LogStreamer.Stream and consumed by  *)
(*             Runner.streamLogs or by the relay goroutine of startLogs.   *)
(* FairLogs  : SpecLogs with the scheduler's fairness.                     *)
(* SpecStreams : Spec with log processes that end by themselves.           *)
(* SpecRun   : Spec preceded by Run's device resolution.                   *)
(***************************************************************************)
EXTENDS Integers, Sequences, FiniteSets, TLC

\* ---------------------------------------------------------------- bounds
\* Number of raw filesystem events the environment produces.
MaxEvents == 2
\* Number of build cycles of a session (the initial one and the rebuilds).
MaxCycles == 3
\* watcher.New(750 * time.Millisecond) at runner.go:227, counted in ticks.
Debounce == 2
\* time.After(100 * time.Millisecond) at runner.go:293, counted in ticks.
DrainWindow == 1
\* make(chan OutputLine, 100) at process/runner.go:37, scaled down.
OutChanCap == 2
\* Number of lines the external process writes to each of stdout and stderr.
MaxLines == 2
\* Number of lines fed to the parser.
MaxFeed == 3
\* Number of devices in the output of simctl list.
MaxDevices == 2
\* Number of schemes of the project, and of built products.
MaxSchemes == 2

\* ------------------------------------------------------------- constants
\* make(chan error, 1)
ErrChanCap == 1

AppPaths == {"A.app", "B.app"}
\* The CFBundleIdentifier in the Info.plist of each built bundle.
PlistBundleID(app) == IF app = "A.app" THEN "com.a" ELSE "com.b"
FsPaths == {"A.swift", "B.H", "C.txt"}
FsOps == {{"Write"}, {"Remove"}, {"Create", "Chmod"}}
Nil == "nil"

VARIABLES
  \* top-level context and process
  ctxDone, crashed,
  \* Runner.Run / runWithWatch / buildCycle
  cfgWatch, pc, step, phase, cycleNo, cmds, cycleApp, cycleBID,
  appPath, bundleID, currentCancel, logs, running, devState, devBooted,
  drainLeft, inFlight, lastGood, failStep, stepErrs,
  \* Watcher.Watch goroutine, its timer and callbacks
  wpc, outClosed, fsClosed, timerArmed, timerLeft, timerSrc, lastPath,
  cbs, nEvents, delivered,
  \* history of the watcher's timing, recorded when trace is set
  trace, fsHist, sinceLast, offers, stoppedSrc,
  \* Process executor and Builder.Build
  xctx, proc, xpc, rd, outChan, errChan, outCl, errCl, bpc, bOut, bErr,
  result, retErr, parsed, hist,
  \* outputParser: the lines still to be fed, the events channel (nil or
  \* not) and the events put on it
  feed, sink, emitted,
  \* LogStreamer.Stream and its consumer (Runner.streamLogs, or the relay
  \* goroutine of startLogs)
  lmode, lgpc, lgLines, lgErrs, lgCur, logOut, logErr, logOutCl, logErrCl,
  slpc, slRet, slSpun,
  \* Run's setup: the simctl device list, the caller's Config and what
  \* resolveDevice returned
  spc, simList, listOk, cfgDeviceName, cfgPlatform, resolved,
  \* buildCycle's scheme: the caller's scheme, the project descriptor, the
  \* built products, and the scheme given to the build and to FindApp
  cfgScheme, projSchemes, projName, apps, used

runVars == <<cfgWatch, pc, step, phase, cycleNo, cmds, cycleApp, cycleBID,
             appPath, bundleID, currentCancel, logs, running, devState,
             devBooted, drainLeft, inFlight, lastGood, failStep,
             stepErrs>>
watchVars == <<wpc, outClosed, fsClosed, timerArmed, timerLeft, timerSrc,
               lastPath, cbs, nEvents, delivered, trace, fsHist, sinceLast,
               offers, stoppedSrc>>
parseVars == <<feed, sink, emitted>>
logVars == <<lmode, lgpc, lgLines, lgErrs, lgCur, logOut, logErr, logOutCl,
             logErrCl, slpc, slRet, slSpun>>
buildVars == <<bpc, bOut, bErr, result, retErr, parsed, parseVars>>
execVars == <<xctx, proc, xpc, rd, outChan, errChan, outCl, errCl, bpc,
              bOut, bErr, result, retErr, parsed, hist, parseVars, logVars>>
schemeVars == <<cfgScheme, projSchemes, projName, apps, used>>
setupVars == <<spc, simList, listOk, cfgDeviceName, cfgPlatform, resolved,
               schemeVars>>
sessVars == <<ctxDone, crashed, runVars, watchVars>>
otherVars == <<execVars, setupVars>>
vars == <<ctxDone, crashed, runVars, watchVars, execVars, setupVars>>

\* ------------------------------------------------------------- helpers
Min(a, b) == IF a < b THEN a ELSE b

\* strings.ToLower(filepath.Ext(path))
Ext(path) ==
  CASE path = "A.swift" -> ".swift"
    [] path = "B.H" -> ".h"
    [] path = "C.txt" -> ".txt"

patterns == {".swift", ".m", ".h", ".c", ".cpp", ".metal", ".xib", ".storyboard"}

shouldWatch(path) == Ext(path) \in patterns

\* Variant of the operation filter that lets every operation kind through.
RelevantOpAny(ops) == ops # {}

\* event.Op & (Write|Create|Rename|Chmod) != 0
RelevantOp(ops) == ops \cap {"Write", "Create", "Rename", "Chmod"} # {}

\* ------------------------------------------------------- log streams
\* Variant of cleanup that does not invoke the handle.
cleanupNoCancel(ls, cc) == ls

\* cleanup(): invoke the current cancellation handle, if any.
cleanup(ls, cc) == IF cc # 0 THEN [ls EXCEPT ![cc].cancelled = TRUE] ELSE ls

\* A log stream just started: NewLogStreamer(dev, bid).Stream(logCtx), its
\* context not cancelled, its process running.
NewLog(bid) == [bid |-> bid, cancelled |-> FALSE, ended |-> FALSE]

\* startLogs(bid): cleanup(), then a new log context derived from ctx.
startLogs(ls, cc, bid) == Append(cleanup(ls, cc), NewLog(bid))

\* A log stream's context is done when its handle was invoked or when the
\* parent context is done.
LogActive(i) == ~logs[i].cancelled /\ ~ctxDone
ActiveLogs == {i \in 1..Len(logs) : LogActive(i)}

\* ------------------------------------------------------- Watcher.Watch
\* Timer callbacks (time.AfterFunc goroutines) that may still deliver.
Offering == {c \in cbs : c.st \in {"select", "parked"}}

\* case event, ok := <-w.fsWatcher.Events: filter, record the path and
\* replace the pending timer.
Qualifies(path, ops) == shouldWatch(path) /\ RelevantOp(ops)

\* Variant of the path assignment that keeps the first path of a burst.
KeepFirstPath(path) == IF timerArmed THEN lastPath ELSE path

\* lastPath = event.Name
NewLastPath(path) == path

\* Variant of the timer replacement that arms a timer only the first time.
ResetTimerOnce ==
  IF timerSrc = 0
    THEN /\ timerArmed' = TRUE
         /\ timerLeft' = Debounce
         /\ timerSrc' = nEvents + 1
    ELSE UNCHANGED <<timerArmed, timerLeft, timerSrc>>

\* if pending != nil { pending.Stop() }; pending = time.AfterFunc(...)
ResetTimer ==
  /\ timerArmed' = TRUE
  /\ timerLeft' = Debounce
  /\ timerSrc' = nEvents + 1

WatchEvent(path, ops) ==
  /\ ~crashed /\ wpc = "running" /\ ~fsClosed
  /\ nEvents < MaxEvents
  /\ nEvents' = nEvents + 1
  /\ IF Qualifies(path, ops)
       THEN /\ lastPath' = NewLastPath(path)
            /\ ResetTimer
            /\ IF trace
                 THEN /\ fsHist' = Append(fsHist, [id |-> nEvents + 1,
                                                   path |-> path,
                                                   gap |-> sinceLast,
                                                   late |-> ~timerArmed,
                                                   inCycle |->
                                                     IF pc = "cycle"
                                                       THEN cycleNo ELSE 0])
                      /\ sinceLast' = 0
                 ELSE UNCHANGED <<fsHist, sinceLast>>
       ELSE UNCHANGED <<lastPath, timerArmed, timerLeft, timerSrc, fsHist,
                        sinceLast>>
  /\ UNCHANGED <<ctxDone, crashed, runVars, otherVars, wpc, outClosed,
                 fsClosed, cbs, offers, delivered, stoppedSrc, trace>>

\* case <-ctx.Done(): stop the pending timer, return; defer close(out).
WatchCtxDone ==
  /\ ~crashed /\ wpc = "running" /\ ctxDone
  /\ wpc' = "done"
  /\ outClosed' = TRUE
  /\ timerArmed' = FALSE
  /\ stoppedSrc' = IF trace /\ timerArmed THEN timerSrc ELSE stoppedSrc
  /\ crashed' = (\E c \in cbs : c.st = "parked")
  /\ UNCHANGED <<ctxDone, runVars, otherVars, fsClosed, timerLeft, timerSrc,
                 lastPath, cbs, nEvents, fsHist, sinceLast, offers,
                 delivered, trace>>

\* case event, ok := <-Events with !ok (or Errors closed): return without
\* stopping the timer; defer close(out).
WatchEventsClosed ==
  /\ ~crashed /\ wpc = "running" /\ fsClosed
  /\ wpc' = "done"
  /\ outClosed' = TRUE
  /\ crashed' = (\E c \in cbs : c.st = "parked")
  /\ UNCHANGED <<ctxDone, runVars, otherVars, fsClosed, timerArmed, timerLeft,
                 timerSrc, lastPath, cbs, nEvents, fsHist, sinceLast, offers,
                 delivered, stoppedSrc, trace>>

\* The runtime fires the timer: the AfterFunc callback starts in its own
\* goroutine.
TimerFire ==
  /\ ~crashed /\ timerArmed /\ timerLeft = 0
  /\ timerArmed' = FALSE
  /\ cbs' = cbs \cup {[src |-> timerSrc, st |-> "read", p |-> Nil,
                       inBuild |-> FALSE, pend |-> "no"]}
  /\ UNCHANGED <<ctxDone, crashed, runVars, otherVars, wpc, outClosed,
                 fsClosed, timerLeft, timerSrc, lastPath, nEvents, fsHist,
                 sinceLast, offers, delivered, stoppedSrc, trace>>

\* mu.Lock(); p := lastPath; mu.Unlock()
CbRead(c) ==
  /\ ~crashed /\ c \in cbs /\ c.st = "read"
  /\ cbs' = (cbs \ {c}) \cup
            {[c EXCEPT !.st = "select", !.p = lastPath,
                       !.inBuild = (pc = "cycle")]}
  /\ offers' = IF trace THEN offers \cup {[src |-> c.src, p |-> lastPath]}
                         ELSE offers
  /\ UNCHANGED <<ctxDone, crashed, runVars, otherVars, wpc, outClosed,
                 fsClosed, timerArmed, timerLeft, timerSrc, lastPath,
                 nEvents, fsHist, sinceLast, delivered, stoppedSrc, trace>>

\* select { case out <- ChangeEvent{...}: case <-ctx.Done(): } finds no
\* ready case and blocks.
CbPark(c) ==
  /\ ~crashed /\ c \in cbs /\ c.st = "select"
  /\ ~outClosed /\ ~ctxDone
  /\ cbs' = (cbs \ {c}) \cup {[c EXCEPT !.st = "parked"]}
  /\ UNCHANGED <<ctxDone, crashed, runVars, otherVars, wpc, outClosed,
                 fsClosed, timerArmed, timerLeft, timerSrc, lastPath,
                 nEvents, fsHist, sinceLast, offers, delivered, stoppedSrc, trace>>

\* The select takes case <-ctx.Done().
CbCtxDone(c) ==
  /\ ~crashed /\ c \in cbs /\ c.st = "select"
  /\ ctxDone
  /\ cbs' = cbs \ {c}
  /\ UNCHANGED <<ctxDone, crashed, runVars, otherVars, wpc, outClosed,
                 fsClosed, timerArmed, timerLeft, timerSrc, lastPath,
                 nEvents, fsHist, sinceLast, offers, delivered, stoppedSrc, trace>>

\* The select takes case out <- ... on a closed channel: the send panics.
CbPanic(c) ==
  /\ ~crashed /\ c \in cbs /\ c.st = "select"
  /\ outClosed
  /\ crashed' = TRUE
  /\ UNCHANGED <<ctxDone, runVars, watchVars, otherVars>>

\* The watch loop has a ready case in the select it is blocked in.
LoopUrgent ==
  \/ pc = "wait" /\ (ctxDone \/ outClosed \/ Offering # {})
  \/ pc = "drain" /\ (drainLeft = 0 \/ (Offering # {} /\ ~outClosed))

\* The watcher goroutine has a ready case that ends it.
WatchUrgent == wpc = "running" /\ (ctxDone \/ fsClosed)

\* One tick of time.  Runnable goroutine steps take no time: an expired
\* timer fires, its callback reads and reaches its select, and a goroutine
\* with a ready select case takes it before the next tick.  Only external
\* commands, timers and the arrival of filesystem events take time.
Tick ==
  /\ ~crashed /\ pc # "returned"
  /\ ~(timerArmed /\ timerLeft = 0)
  /\ \A c \in cbs : c.st = "parked"
  /\ ~LoopUrgent /\ ~WatchUrgent
  /\ \/ timerArmed
     \/ pc = "drain"
     \/ trace /\ sinceLast <= Debounce /\ wpc = "running"
  /\ timerLeft' = IF timerArmed THEN timerLeft - 1 ELSE timerLeft
  /\ sinceLast' = IF trace THEN Min(sinceLast + 1, Debounce + 1)
                            ELSE sinceLast
  /\ drainLeft' = IF pc = "drain" THEN drainLeft - 1 ELSE drainLeft
  /\ UNCHANGED <<ctxDone, crashed, otherVars, cfgWatch, pc, step, phase,
                 cycleNo, cmds, cycleApp, cycleBID, appPath, bundleID,
                 currentCancel, logs, running, devState, devBooted, inFlight,
                 lastGood, failStep, stepErrs, wpc, outClosed, fsClosed, timerArmed, timerSrc,
                 lastPath, cbs, nEvents, fsHist, offers, delivered,
                 stoppedSrc, trace>>

\* cancel() in main on SIGINT/SIGTERM: ctx.Done() is closed; goroutines
\* blocked in a select on it are released through that case.
Cancel ==
  /\ ~crashed /\ ~ctxDone /\ pc # "returned"
  /\ ctxDone' = TRUE
  /\ cbs' = {c \in cbs : c.st # "parked"}
  /\ UNCHANGED <<crashed, runVars, otherVars, wpc, outClosed, fsClosed,
                 timerArmed, timerLeft, timerSrc, lastPath, nEvents, fsHist,
                 sinceLast, offers, delivered, stoppedSrc, trace>>

\* ------------------------------------------------- Runner.buildCycle
\* Steps whose external command is started with the run's ctx
\* (Builder.Build and the device manager's RunSilent calls);
\* extractBundleID runs under context.Background().
CtxBound(s) == s \in {"build", "boot", "install", "terminate", "launch"}

\* Variant of the step order with terminate before install.
NextStepTerminateFirst(s) ==
  CASE s = "build" -> "find"
    [] s = "find" -> "extract"
    [] s = "extract" -> "boot"
    [] s = "boot" -> "terminate"
    [] s = "terminate" -> "install"
    [] s = "install" -> "launch"

\* Variant in which no error is dropped.
BestEffortNone(s) == FALSE

\* Variant in which the error of install is dropped as well.
BestEffortInstall(s) == s \in {"install", "terminate"}

\* _ = r.deviceManager.Terminate(ctx, dev, bundleID): the one step whose
\* error does not end the cycle.
BestEffort(s) == s = "terminate"

\* Launch is the last step of buildCycle.
LastStep == "launch"

\* The order of the steps in buildCycle.
NextStep(s) ==
  CASE s = "build" -> "find"
    [] s = "find" -> "extract"
    [] s = "extract" -> "boot"
    [] s = "boot" -> "install"
    [] s = "install" -> "terminate"
    [] s = "terminate" -> "launch"

\* A new build cycle begins (Run's initial call or the watch loop's call).
BeginCycle ==
  /\ pc' = "cycle"
  /\ step' = "build"
  /\ phase' = "start"
  /\ cmds' = <<>>
  /\ cycleApp' = Nil
  /\ cycleBID' = Nil
  /\ cycleNo' = cycleNo + 1
  /\ inFlight' = inFlight + 1
  /\ failStep' = "none"
  /\ stepErrs' = <<>>

\* Variant that restarts the logs for the identifier the failed cycle
\* returned.
NewBundleIDOnFail == Nil

\* startLogs(bundleID) on the failure path: the session's identifier.
BundleIDOnFail == bundleID

\* The callbacks that wait to deliver when a cycle ends are marked with
\* the cycle's outcome (a record of the past, not used by the program).
MarkWaiting(outcome) ==
  {IF c.st \in {"select", "parked"} THEN [c EXCEPT !.pend = outcome] ELSE c :
     c \in cbs}

\* buildCycle returned an error.  Run returns it for the initial cycle; the
\* watch loop prints it, restarts the logs for bundleID and continues.
CycleFail ==
  /\ cbs' = MarkWaiting("fail")
  /\ inFlight' = inFlight - 1
  /\ failStep' = step
  /\ stepErrs' = Append(stepErrs, step)
  /\ phase' = "start"
  /\ IF cycleNo = 1
       THEN /\ pc' = "returned"
            /\ UNCHANGED <<logs, currentCancel>>
       ELSE /\ pc' = "wait"
            /\ logs' = startLogs(logs, currentCancel, BundleIDOnFail)
            /\ currentCancel' = Len(logs')
  /\ UNCHANGED <<cfgWatch, step, cycleNo, cycleApp, cycleBID, appPath,
                 bundleID, devState, drainLeft, lastGood, wpc, outClosed,
                 fsClosed, timerArmed, timerLeft, timerSrc, lastPath,
                 nEvents, fsHist, sinceLast, offers, delivered, stoppedSrc,
                 trace>>

\* Variant in which the loop waits for the next change at once.
AfterRebuildNoDrain == "wait"

\* After a successful rebuild the loop enters its drain.
AfterRebuild == "drain"

\* Variant in which the loop keeps the identifier it had.
RebuiltKeepsOld(old, new) == old

\* bundleID = newBundleID after a successful rebuild.
Rebuilt(old, new) == new

\* buildCycle returned (appPath, bundleID, nil).  After the initial cycle
\* Run enters runWithWatch (watcher.New, AddRecursive, Watch, startLogs) or
\* streamLogs; after a rebuild the loop stores the new values and drains.
CycleSucceed(wok) ==
  /\ inFlight' = inFlight - 1
  /\ failStep' = "none"
  /\ phase' = "start"
  /\ lastGood' = [app |-> cycleApp, bid |-> cycleBID]
  /\ cbs' = MarkWaiting("ok")
  /\ IF cycleNo = 1
       THEN /\ appPath' = cycleApp
            /\ bundleID' = cycleBID
            /\ UNCHANGED drainLeft
            /\ IF cfgWatch
                 THEN IF wok
                        THEN /\ pc' = "wait"
                             /\ wpc' = "running"
                             /\ logs' = startLogs(logs, currentCancel, cycleBID)
                             /\ currentCancel' = Len(logs')
                        ELSE /\ pc' = "returned"
                             /\ UNCHANGED <<wpc, logs, currentCancel>>
                 ELSE /\ pc' = "streaming"
                      /\ logs' = Append(logs, NewLog(cycleBID))
                      /\ UNCHANGED <<wpc, currentCancel>>
       ELSE /\ appPath' = cycleApp
            /\ bundleID' = Rebuilt(bundleID, cycleBID)
            /\ drainLeft' = DrainWindow
            /\ pc' = AfterRebuild
            /\ UNCHANGED <<wpc, logs, currentCancel>>
  /\ UNCHANGED <<cfgWatch, step, cycleNo, cycleApp, cycleBID, devState,
                 stepErrs, outClosed, fsClosed, timerArmed, timerLeft,
                 timerSrc, lastPath, nEvents, fsHist, sinceLast, offers,
                 delivered, stoppedSrc, trace>>

\* The step's command is started, unless dev.State says the device is
\* booted (boot is skipped) or the step is bound to a ctx that is already
\* done (exec's Start returns ctx.Err() and nothing runs).
StepStart ==
  /\ ~crashed /\ pc = "cycle" /\ phase = "start"
  /\ step \in {"build", "extract", "boot", "install", "terminate", "launch"}
  /\ IF step = "boot" /\ devState = "Booted"
       THEN /\ step' = NextStep("boot")
            /\ UNCHANGED <<cfgWatch, pc, phase, cycleNo, cmds, cycleApp,
                           cycleBID, appPath, bundleID, currentCancel, logs,
                           devState, drainLeft, inFlight, lastGood, failStep, stepErrs,
                           watchVars>>
       ELSE IF CtxBound(step) /\ ctxDone
         THEN IF BestEffort(step)
                THEN /\ step' = NextStep(step)
                     /\ stepErrs' = Append(stepErrs, step)
                     /\ UNCHANGED <<cfgWatch, pc, phase, cycleNo, cmds,
                                    cycleApp, cycleBID, appPath, bundleID,
                                    currentCancel, logs, devState, drainLeft,
                                    inFlight, lastGood, failStep, watchVars>>
                ELSE /\ CycleFail
                     /\ UNCHANGED cmds
         ELSE /\ cmds' = Append(cmds, step)
              /\ phase' = "run"
              /\ UNCHANGED <<cfgWatch, pc, step, cycleNo, cycleApp, cycleBID,
                             appPath, bundleID, currentCancel, logs,
                             devState, drainLeft, inFlight, lastGood, failStep, stepErrs,
                             watchVars>>
  /\ UNCHANGED <<ctxDone, crashed, running, devBooted, otherVars>>

\* FindApp(r.project.Name, scheme, config, cfg.Platform): a filesystem
\* search, no external command.
FindAppStep(ok, path) ==
  /\ ~crashed /\ pc = "cycle" /\ step = "find"
  /\ IF ok
       THEN /\ cycleApp' = path
            /\ step' = "extract"
            /\ UNCHANGED <<cfgWatch, pc, phase, cycleNo, cycleBID, appPath,
                           bundleID, currentCancel, logs, devState,
                           drainLeft, inFlight, lastGood, failStep, stepErrs, watchVars>>
       ELSE CycleFail
  /\ UNCHANGED <<ctxDone, crashed, cmds, running, devBooted, otherVars>>

\* The running command of the current step ends with an error.  terminate's
\* error is dropped (Manager.Terminate returns nil) and the cycle goes on.
StepFinishFail ==
  /\ ~crashed /\ pc = "cycle" /\ phase = "run"
  /\ IF BestEffort(step)
       THEN /\ step' = NextStep(step)
            /\ phase' = "start"
            /\ stepErrs' = Append(stepErrs, step)
            /\ UNCHANGED <<cfgWatch, pc, cycleNo, cycleApp, cycleBID, appPath,
                           bundleID, currentCancel, logs, devState,
                           drainLeft, inFlight, lastGood, failStep, watchVars>>
       ELSE CycleFail
  /\ UNCHANGED <<ctxDone, crashed, cmds, running, devBooted, otherVars>>

\* The running command of the current step ends without error.  A command
\* started with the run's ctx is killed when ctx is done and its Run returns
\* an error; the command of extractBundleID runs on.
StepFinishOk(wok) ==
  /\ ~crashed /\ pc = "cycle" /\ phase = "run"
  /\ ~(CtxBound(step) /\ ctxDone)
  /\ cycleBID' = IF step = "extract" THEN PlistBundleID(cycleApp) ELSE cycleBID
  /\ devBooted' = IF step = "boot" THEN TRUE ELSE devBooted
  /\ running' = CASE step = "terminate" -> running \ {cycleBID}
                  [] step = "launch" -> running \cup {cycleBID}
                  [] OTHER -> running
  /\ IF step = LastStep
       THEN CycleSucceed(wok)
       ELSE /\ step' = NextStep(step)
            /\ phase' = "start"
            /\ UNCHANGED <<cfgWatch, pc, cycleNo, cycleApp, appPath, bundleID,
                           currentCancel, logs, devState, drainLeft, inFlight,
                           lastGood, failStep, stepErrs, watchVars>>
  /\ UNCHANGED <<ctxDone, crashed, cmds, otherVars>>

\* ----------------------------------------------- Runner.runWithWatch
\* Variant in which the loop takes change events while buildCycle runs.
LoopReadyDuringBuild == pc \in {"wait", "cycle"}

\* The loop is at its select (for { select { ... } }) and can take a case.
LoopReady == pc = "wait"

\* case change, ok := <-changes with ok: cleanup(), then buildCycle.
LoopReceive(c) ==
  /\ ~crashed /\ LoopReady /\ ~outClosed
  /\ c \in Offering
  /\ cycleNo < MaxCycles
  /\ cbs' = cbs \ {c}
  /\ delivered' = delivered \cup {[src |-> c.src, inBuild |-> c.inBuild,
                                    at |-> pc, pend |-> c.pend]}
  /\ logs' = cleanup(logs, currentCancel)
  /\ BeginCycle
  /\ UNCHANGED <<ctxDone, crashed, otherVars, cfgWatch, appPath, bundleID,
                 currentCancel, running, devState, devBooted, drainLeft,
                 lastGood, wpc, outClosed, fsClosed, timerArmed, timerLeft,
                 timerSrc, lastPath, nEvents, fsHist, sinceLast, offers,
                 stoppedSrc, trace>>

\* case <-ctx.Done(), or case <-changes with !ok: return nil; the deferred
\* cleanup() and w.Close() run.
LoopReturn ==
  /\ ~crashed /\ pc = "wait"
  /\ ctxDone \/ outClosed
  /\ pc' = "returned"
  /\ logs' = cleanup(logs, currentCancel)
  /\ fsClosed' = TRUE
  /\ UNCHANGED <<ctxDone, crashed, otherVars, cfgWatch, step, phase, cycleNo,
                 cmds, cycleApp, cycleBID, appPath, bundleID, currentCancel,
                 running, devState, devBooted, drainLeft, inFlight, lastGood, failStep, stepErrs,
                 wpc, outClosed, timerArmed, timerLeft, timerSrc, lastPath,
                 cbs, nEvents, fsHist, sinceLast, offers, delivered,
                 stoppedSrc, trace>>

\* drain: case <-changes: the event is discarded.
DrainReceive(c) ==
  /\ ~crashed /\ pc = "drain" /\ ~outClosed
  /\ c \in Offering
  /\ cbs' = cbs \ {c}
  /\ delivered' = delivered \cup {[src |-> c.src, inBuild |-> c.inBuild,
                                    at |-> pc, pend |-> c.pend]}
  /\ UNCHANGED <<ctxDone, crashed, otherVars, runVars, wpc, outClosed,
                 fsClosed, timerArmed, timerLeft, timerSrc, lastPath,
                 nEvents, fsHist, sinceLast, offers, stoppedSrc, trace>>

\* drain: case <-drainDone: break drain; startLogs(bundleID).
DrainDone ==
  /\ ~crashed /\ pc = "drain" /\ drainLeft = 0
  /\ pc' = "wait"
  /\ logs' = startLogs(logs, currentCancel, bundleID)
  /\ currentCancel' = Len(logs')
  /\ UNCHANGED <<ctxDone, crashed, otherVars, cfgWatch, step, phase, cycleNo,
                 cmds, cycleApp, cycleBID, appPath, bundleID, running,
                 devState, devBooted, drainLeft, inFlight, lastGood, failStep, stepErrs,
                 watchVars>>

\* Runner.streamLogs (one-shot mode) returns: ctx is done, the log channel
\* closed, or the log process reported an error.
StreamLogsReturn ==
  /\ ~crashed /\ pc = "streaming"
  /\ pc' = "returned"
  /\ UNCHANGED <<ctxDone, crashed, otherVars, cfgWatch, step, phase, cycleNo,
                 cmds, cycleApp, cycleBID, appPath, bundleID, currentCancel,
                 logs, running, devState, devBooted, drainLeft, inFlight,
                 lastGood, failStep, stepErrs, watchVars>>

\* Variant in which the loop returns when its log stream ends.
ReturnOnStreamEnd(p) == "returned"

\* logs, _ := streamer.Stream(logCtx): the loop has no case for the stream's
\* error channel or for the end of its lines, and stays where it is.
OnStreamEnd(p) == p

\* The log process of the current stream of a watch session ends by itself
\* or fails: Stream's goroutine closes its channels and the relay goroutine
\* ends.
LogStreamEnds ==
  /\ ~crashed /\ cfgWatch /\ pc = "wait"
  /\ currentCancel # 0 /\ LogActive(currentCancel)
  /\ ~logs[currentCancel].ended
  /\ logs' = [logs EXCEPT ![currentCancel].ended = TRUE]
  /\ pc' = OnStreamEnd(pc)
  /\ UNCHANGED <<ctxDone, crashed, otherVars, cfgWatch, step, phase, cycleNo,
                 cmds, cycleApp, cycleBID, appPath, bundleID, currentCancel,
                 running, devState, devBooted, drainLeft, inFlight,
                 lastGood, failStep, stepErrs, watchVars>>

\* ------------------------------------------------ Runner.resolveDevice
\* Strings that the code takes apart (device names, identifiers, the
\* caller's device argument) are sequences of characters.
Lower(c) == CASE c = "A" -> "a" [] c = "B" -> "b" [] OTHER -> c

\* strings.ToLower
ToLower(str) == [i \in 1..Len(str) |-> Lower(str[i])]

\* strings.Contains
Contains(str, sub) ==
  \E i \in 0..(Len(str) - Len(sub)) : SubSeq(str, i + 1, i + Len(sub)) = sub

\* parseRuntime: the platform of a runtime identifier.
parseRuntime(runtime) == IF runtime = "iOS-17-0" THEN "ios" ELSE "tvos"

Runtimes == {"iOS-17-0", "tvOS-17-0"}
Platforms == {"ios", "tvos"}
DeviceNames == {<<"A">>, <<"a">>, <<"A", "b">>, <<"B">>}
\* The --device argument; <<>> is the empty string (none given).
DeviceQueries == {<<>>, <<"1">>, <<"A">>, <<"a">>, <<"b">>, <<"9">>}

\* The udid of the i-th entry printed by simctl list.
UdidOf(i) == <<CASE i = 1 -> "1" [] i = 2 -> "2" [] i = 3 -> "3" [] OTHER -> "4">>

\* What simctl list prints about one device, udid apart.
SimAttrs ==
  [runtime : Runtimes, name : DeviceNames,
   state : {"Booted", "Shutdown"}, isAvailable : BOOLEAN]

\* The outputs of simctl list devices -j, in the order ForEach visits them.
SimLists ==
  UNION {{[i \in 1..k |-> [udid |-> UdidOf(i), runtime |-> a[i].runtime,
                           name |-> a[i].name, state |-> a[i].state,
                           isAvailable |-> a[i].isAvailable]] :
            a \in [1..k -> SimAttrs]} : k \in 0..MaxDevices}

NoDevice ==
  [UDID |-> <<>>, Name |-> <<>>, Platform |-> "", State |-> "",
   IsAvailable |-> FALSE]

\* &Device{UDID: ..., Name: ..., Platform: plat, State: state, ...}
DeviceOf(e) ==
  [UDID |-> e.udid, Name |-> e.name, Platform |-> parseRuntime(e.runtime),
   State |-> e.state, IsAvailable |-> TRUE]

\* Manager.List with its simctl call succeeding: the available devices, of
\* the platform if one is given, booted only if asked.
List(raw, platform, onlyBooted) ==
  LET Keep(e) ==
        /\ platform = "" \/ parseRuntime(e.runtime) = platform
        /\ e.isAvailable
        /\ ~onlyBooted \/ e.state = "Booted"
      kept == SelectSeq(raw, Keep)
  IN [i \in 1..Len(kept) |-> DeviceOf(kept[i])]

\* The first element of devices that satisfies the test.
First(idx) == CHOOSE i \in idx : \A j \in idx : i <= j

Found(d) == [err |-> Nil, dev |-> d]
Failed(e) == [err |-> e, dev |-> NoDevice]

\* Variant of Get that takes only an equal identifier or an equal name.
GetExact(ok, raw, nameOrUDID) ==
  IF ~ok THEN Failed("simctl list")
  ELSE
    LET devices == List(raw, "", FALSE)
        eq == {i \in 1..Len(devices) : \/ devices[i].UDID = nameOrUDID
                                        \/ devices[i].Name = nameOrUDID}
    IN IF eq # {} THEN Found(devices[First(eq)])
       ELSE Failed("device not found")

\* Manager.Get: the first device with that UDID, else the first whose name
\* equals it without regard to case, else the first whose name contains
\* it without regard to case.
Get(ok, raw, nameOrUDID) ==
  IF ~ok THEN Failed("simctl list")
  ELSE
    LET devices == List(raw, "", FALSE)
        all == 1..Len(devices)
        lower == ToLower(nameOrUDID)
        byUDID == {i \in all : devices[i].UDID = nameOrUDID}
        byName == {i \in all : ToLower(devices[i].Name) = lower}
        bySub == {i \in all : Contains(ToLower(devices[i].Name), lower)}
    IN CASE byUDID # {} -> Found(devices[First(byUDID)])
         [] byUDID = {} /\ byName # {} -> Found(devices[First(byName)])
         [] byUDID = {} /\ byName = {} /\ bySub # {}
              -> Found(devices[First(bySub)])
         [] OTHER -> Failed("device not found")

\* Runner.resolveDevice
resolveDevice(ok, raw, deviceName, platform) ==
  IF deviceName # <<>>
    THEN Get(ok, raw, deviceName)
    ELSE IF ~ok THEN Failed("simctl list")
    ELSE
      LET devices == List(raw, platform, FALSE)
          booted == {i \in 1..Len(devices) : devices[i].State = "Booted"}
      IN IF Len(devices) = 0 THEN Failed("no simulators found")
         ELSE IF booted # {} THEN Found(devices[First(booted)])
         ELSE Found(devices[1])

\* dev, err := r.resolveDevice(ctx, cfg) at the head of Run.
ResolveDeviceStep ==
  /\ spc = "resolve"
  /\ resolved' = resolveDevice(listOk, simList, cfgDeviceName, cfgPlatform)
  /\ spc' = "resolved"
  /\ UNCHANGED <<sessVars, execVars, simList, listOk, cfgDeviceName,
                 cfgPlatform, schemeVars>>

\* Variant of Run that enters the build cycle whatever resolveDevice
\* returned.
AfterResolveIgnoringErr(err) == "cycle"

\* dev, err := r.resolveDevice(ctx, cfg); if err != nil { return err }
AfterResolve(err) == IF err # Nil THEN "returned" ELSE "cycle"

\* The head of Run: the device is resolved with the run's ctx (a done ctx
\* fails the simctl call); on an error Run returns it, otherwise the
\* initial buildCycle is entered with the device as simctl listed it.
RunResolve ==
  /\ ~crashed /\ pc = "resolve" /\ spc = "resolve"
  /\ LET res == resolveDevice(listOk /\ ~ctxDone, simList, cfgDeviceName,
                              cfgPlatform)
     IN /\ resolved' = res
        /\ spc' = "resolved"
        /\ pc' = AfterResolve(res.err)
        /\ IF res.err # Nil
             THEN /\ failStep' = "resolve"
                  /\ UNCHANGED <<cycleNo, inFlight, devState, devBooted>>
             ELSE /\ cycleNo' = 1
                  /\ inFlight' = 1
                  /\ devState' = res.dev.State
                  /\ devBooted' = (res.dev.State = "Booted")
                  /\ UNCHANGED failStep
  /\ UNCHANGED <<ctxDone, crashed, cfgWatch, step, phase, cmds, cycleApp,
                 cycleBID, appPath, bundleID, currentCancel, logs, running,
                 drainLeft, lastGood, stepErrs, watchVars, execVars,
                 simList, listOk, cfgDeviceName, cfgPlatform, schemeVars>>

\* --------------------------------------------- buildCycle: the scheme
SchemeNames == {"S1", "S2"}
ProjectNames == {"App", "S2"}
ProductNames == {"S1", "S2", "App"}

\* scheme := cfg.Scheme; if scheme == "" && len(r.project.Schemes) > 0
\* { scheme = r.project.Schemes[0] }
cycleScheme(scheme, schemes) ==
  IF scheme = "" /\ Len(schemes) > 0 THEN schemes[1] ELSE scheme

\* Builder.buildArgs: the value after -scheme, "" when the flag is not
\* passed.
buildArgsScheme(scheme, schemes) ==
  IF scheme # "" THEN scheme
  ELSE IF Len(schemes) > 0 THEN schemes[1]
  ELSE ""

\* FindApp: the product named as the scheme, otherwise the first product;
\* an error when there is no product.
FindApp(scheme, products) ==
  LET named == {i \in 1..Len(products) : products[i] = scheme}
  IN IF Len(products) = 0 THEN Nil
     ELSE IF named # {} THEN products[First(named)]
     ELSE products[1]

NoScheme == [set |-> FALSE, build |-> "", find |-> "", app |-> Nil]

\* buildCycle up to the call of Build: the scheme is resolved and handed
\* to Build in buildCfg.Scheme.
SchemeStep ==
  /\ spc = "scheme"
  /\ used' = [NoScheme EXCEPT
               !.set = TRUE,
               !.build = buildArgsScheme(cycleScheme(cfgScheme, projSchemes),
                                         projSchemes)]
  /\ spc' = "built"
  /\ UNCHANGED <<sessVars, execVars, simList, listOk, cfgDeviceName,
                 cfgPlatform, resolved, cfgScheme, projSchemes, projName, apps>>

\* appPath, err = FindApp(r.project.Name, scheme, config, cfg.Platform)
FindAppCall ==
  /\ spc = "built"
  /\ used' = [used EXCEPT
               !.find = cycleScheme(cfgScheme, projSchemes),
               !.app = FindApp(cycleScheme(cfgScheme, projSchemes), apps)]
  /\ spc' = "found"
  /\ UNCHANGED <<sessVars, execVars, simList, listOk, cfgDeviceName,
                 cfgPlatform, resolved, cfgScheme, projSchemes, projName, apps>>

\* No scheme resolution in progress.
SchemeIdle ==
  /\ cfgScheme = "" /\ projSchemes = <<>> /\ projName = "App"
  /\ apps = <<>> /\ used = NoScheme

\* No setup in progress: its variables rest.
SetupIdle ==
  /\ spc = "idle" /\ simList = <<>> /\ listOk = TRUE
  /\ cfgDeviceName = <<>> /\ cfgPlatform = "ios"
  /\ resolved = Failed(Nil)
  /\ SchemeIdle

\* ------------------------------------------------ outputParser.parseLine
\* A line is a sequence of tokens, the tokens being what whitespace
\* separates; Blank stands for leading or trailing whitespace.  The two
\* sentinels are single tokens.
Blank == " "
SuccessSentinel == "** BUILD SUCCEEDED **"
FailureSentinel == "** BUILD FAILED **"
SuccessLine == <<SuccessSentinel>>
FailureLine == <<FailureSentinel>>

\* Tokens that \w+ matches.
WordTokens ==
  {"CompileSwift", "Linking", "CodeSign", "normal", "arm64", "App", "x",
   "missing", "return", "unused"}

\* Tokens of the shape (.+):(\d+):(\d+): with their three groups.
LocTokens == {"Foo.swift:10:3:", "Bar.swift:7:1:"}
LocFile(tok) == IF tok = "Foo.swift:10:3:" THEN "Foo.swift" ELSE "Bar.swift"
\* Variant that takes the line number from the third group.
LocLineFromThird(tok) == IF tok = "Foo.swift:10:3:" THEN 3 ELSE 1
\* strconv.Atoi(matches[2]), strconv.Atoi(matches[3])
LocLine(tok) == IF tok = "Foo.swift:10:3:" THEN 10 ELSE 7
LocColumn(tok) == IF tok = "Foo.swift:10:3:" THEN 3 ELSE 1

\* strings.TrimSpace(line)
TrimSpace(line) ==
  LET keep == {i \in 1..Len(line) : line[i] # Blank}
  IN IF keep = {} THEN <<>>
     ELSE SubSeq(line, CHOOSE i \in keep : \A j \in keep : i <= j,
                       CHOOSE i \in keep : \A j \in keep : i >= j)

\* ^CompileSwift\s+\w+\s+\w+\s+(.+)$
MatchCompile(t) ==
  /\ Len(t) >= 4 /\ t[1] = "CompileSwift"
  /\ t[2] \in WordTokens /\ t[3] \in WordTokens

\* ^(.+):(\d+):(\d+):\s+(warning|error):\s+(.+)$ : the positions of a
\* location token followed by the kind and a message.
DiagAt(t) ==
  {i \in 1..(Len(t) - 2) :
     t[i] \in LocTokens /\ t[i + 1] \in {"warning:", "error:"}}

MatchDiag(t) == DiagAt(t) # {}

\* The first group is greedy: the last such position is the one matched.
DiagPos(t) == CHOOSE i \in DiagAt(t) : \A j \in DiagAt(t) : j <= i

\* ^Linking\s+(.+)$
MatchLink(t) == Len(t) >= 2 /\ t[1] = "Linking"

\* ^CodeSign\s+(.+)$
MatchSign(t) == Len(t) >= 2 /\ t[1] = "CodeSign"

\* \*\* BUILD SUCCEEDED \*\* and \*\* BUILD FAILED \*\*, unanchored
MatchSuccess(t) == \E i \in 1..Len(t) : t[i] = SuccessSentinel
MatchFailure(t) == \E i \in 1..Len(t) : t[i] = FailureSentinel

\* Variant of the order of the recognizers that tries the sentinels first.
ClassifySentinelsFirst(line) ==
  LET t == TrimSpace(line)
  IN CASE t = <<>> -> "none"
       [] MatchSuccess(t) -> "success"
       [] MatchFailure(t) -> "failure"
       [] MatchCompile(t) -> "compileFile"
       [] MatchDiag(t) ->
            IF t[DiagPos(t) + 1] = "error:" THEN "error" ELSE "warning"
       [] MatchLink(t) -> "link"
       [] MatchSign(t) -> "sign"
       [] OTHER -> "none"

\* The recognizer that takes the line: the first that matches, in the order
\* of parseLine; "none" for a blank line and for a line nothing matches.
Classify(line) ==
  LET t == TrimSpace(line)
  IN CASE t = <<>> -> "none"
       [] MatchCompile(t) -> "compileFile"
       [] MatchDiag(t) ->
            IF t[DiagPos(t) + 1] = "error:" THEN "error" ELSE "warning"
       [] MatchLink(t) -> "link"
       [] MatchSign(t) -> "sign"
       [] MatchSuccess(t) -> "success"
       [] MatchFailure(t) -> "failure"
       [] OTHER -> "none"

\* The Event parseLine builds for a recognized line.  File and Message are
\* the tokens of the matched group.
EventOf(line) ==
  LET t == TrimSpace(line)
      k == Classify(line)
      blank == [Type |-> k, File |-> <<>>, Line |-> 0, Column |-> 0,
                Message |-> <<>>]
  IN CASE k = "compileFile" ->
            [blank EXCEPT !.File = SubSeq(t, 4, Len(t)),
                          !.Message = SubSeq(t, 4, Len(t))]
       [] k \in {"warning", "error"} ->
            [blank EXCEPT
               !.File = SubSeq(t, 1, DiagPos(t) - 1)
                          \o <<LocFile(t[DiagPos(t)])>>,
               !.Line = LocLine(t[DiagPos(t)]),
               !.Column = LocColumn(t[DiagPos(t)]),
               !.Message = SubSeq(t, DiagPos(t) + 2, Len(t))]
       [] k \in {"link", "sign"} ->
            [blank EXCEPT !.Message = SubSeq(t, 2, Len(t))]
       [] OTHER -> blank

\* Variant in which every line other than the success sentinel clears
\* Success.
SuccessAfterOnlyLast(k, cur) == k = "success"

\* Variant of the failure branch that leaves Success as it is.
SuccessAfterKeep(k, cur) == IF k = "success" THEN TRUE ELSE cur

\* p.result.Success = true on the success sentinel, false on the failure
\* sentinel.
SuccessAfter(k, cur) ==
  CASE k = "success" -> TRUE
    [] k = "failure" -> FALSE
    [] OTHER -> cur

\* Variant of the diagnostic branch that appends every diagnostic to Errors.
AppendDiagToErrors(res, k, ev) ==
  IF k \in {"warning", "error"}
    THEN [res EXCEPT !.Errors = Append(res.Errors, ev)]
    ELSE res

\* Warnings = append(Warnings, ev) or Errors = append(Errors, ev)
AppendDiag(res, k, ev) ==
  CASE k = "warning" -> [res EXCEPT !.Warnings = Append(res.Warnings, ev)]
    [] k = "error" -> [res EXCEPT !.Errors = Append(res.Errors, ev)]
    [] OTHER -> res

\* outputParser.parseLine: the effect of a line on the Result.
parseLine(res, line) ==
  LET k == Classify(line)
      r == AppendDiag(res, k, EventOf(line))
  IN [r EXCEPT !.Success = SuccessAfter(k, res.Success)]

\* outputParser.parseLine: the events a line puts on p.events.
EmitOf(line) == IF Classify(line) = "none" THEN <<>> ELSE <<EventOf(line)>>

\* result := &Result{}
NewResult ==
  [isNil |-> FALSE, Success |-> FALSE, Warnings |-> <<>>, Errors |-> <<>>]

\* ------------------------------------------------------------- session
\* The nil *Result that Build returns with ctx.Err().
NilResult == [NewResult EXCEPT !.isNil = TRUE]

\* What has happened in the invocation so far.
HistInit ==
  [started |-> "no", waited |-> FALSE, waitErr |-> Nil, errSent |-> 0,
   lateSend |-> FALSE, cancelInFlight |-> FALSE,
   script |-> [s \in {"stdout", "stderr"} |-> <<>>]]

\* No log stream: its variables rest.
LogIdle ==
  /\ lmode = "none" /\ lgpc = "idle" /\ lgLines = FALSE /\ lgErrs = FALSE
  /\ lgCur = <<>> /\ logOut = <<>> /\ logErr = <<>>
  /\ logOutCl = FALSE /\ logErrCl = FALSE
  /\ slpc = "idle" /\ slRet = Nil /\ slSpun = FALSE

\* No Process Executor invocation: its variables rest.
ExecIdle ==
  /\ xctx = FALSE /\ proc = "none" /\ xpc = "idle"
  /\ rd = [s \in {"stdout", "stderr"} |->
            [st |-> "idle", left |-> <<>>, cur |-> <<>>]]
  /\ outChan = <<>> /\ errChan = <<>> /\ outCl = FALSE /\ errCl = FALSE
  /\ bpc = "idle" /\ bOut = FALSE /\ bErr = FALSE
  /\ result = NewResult /\ retErr = Nil /\ parsed = <<>>
  /\ hist = HistInit
  /\ feed = <<>> /\ sink = TRUE /\ emitted = <<>>
  /\ LogIdle

\* Run after resolveDevice, entering the initial buildCycle.
SessionStart ==
  /\ ctxDone = FALSE /\ crashed = FALSE
  /\ pc = "cycle" /\ step = "build" /\ phase = "start"
  /\ cycleNo = 1 /\ cmds = <<>> /\ cycleApp = Nil /\ cycleBID = Nil
  /\ appPath = Nil /\ bundleID = Nil /\ currentCancel = 0 /\ logs = <<>>
  /\ running = {} /\ drainLeft = 0 /\ inFlight = 1
  /\ lastGood = [app |-> Nil, bid |-> Nil] /\ failStep = "none"
  /\ stepErrs = <<>>
  /\ wpc = "idle" /\ outClosed = FALSE /\ fsClosed = FALSE
  /\ timerArmed = FALSE /\ timerLeft = 0 /\ timerSrc = 0 /\ lastPath = Nil
  /\ cbs = {} /\ nEvents = 0 /\ fsHist = <<>> /\ sinceLast = Debounce + 1
  /\ offers = {} /\ delivered = {} /\ stoppedSrc = 0
  /\ ExecIdle
  /\ SetupIdle

Init ==
  /\ SessionStart
  /\ trace = FALSE
  /\ cfgWatch \in BOOLEAN
  /\ devState \in {"Shutdown", "Booted"}
  /\ devBooted = (devState = "Booted")

\* A session on a booted device, with the event times recorded.
InitDebounce ==
  /\ SessionStart
  /\ trace = TRUE
  /\ cfgWatch \in BOOLEAN
  /\ devState = "Booted"
  /\ devBooted = TRUE

Next ==
  \/ Cancel
  \/ Tick
  \/ StepStart
  \/ \E ok \in BOOLEAN, path \in AppPaths : FindAppStep(ok, path)
  \/ StepFinishFail
  \/ \E wok \in BOOLEAN : StepFinishOk(wok)
  \/ \E c \in cbs : LoopReceive(c)
  \/ LoopReturn
  \/ \E c \in cbs : DrainReceive(c)
  \/ DrainDone
  \/ StreamLogsReturn
  \/ \E path \in FsPaths, ops \in FsOps : WatchEvent(path, ops)
  \/ WatchCtxDone
  \/ WatchEventsClosed
  \/ TimerFire
  \/ \E c \in cbs : CbRead(c)
  \/ \E c \in cbs : CbPark(c)
  \/ \E c \in cbs : CbCtxDone(c)
  \/ \E c \in cbs : CbPanic(c)

Spec == Init /\ [][Next]_vars

SpecDebounce == InitDebounce /\ [][Next]_vars

\* The session with log processes that can end by themselves.
NextStreams == Next \/ LogStreamEnds

SpecStreams == Init /\ [][NextStreams]_vars

\* The simctl outputs given to a whole run: no device, or one iOS device.
RunSimLists ==
  {<<>>} \cup
  {<<[udid |-> UdidOf(1), runtime |-> "iOS-17-0", name |-> <<"A">>,
      state |-> st, isAvailable |-> av]>> :
     st \in {"Booted", "Shutdown"}, av \in BOOLEAN}

\* Run is entered: nothing is resolved, built or started yet.
InitRun ==
  /\ ctxDone = FALSE /\ crashed = FALSE
  /\ cfgWatch \in BOOLEAN /\ devState = "Shutdown" /\ devBooted = FALSE
  /\ pc = "resolve" /\ step = "build" /\ phase = "start"
  /\ cycleNo = 0 /\ cmds = <<>> /\ cycleApp = Nil /\ cycleBID = Nil
  /\ appPath = Nil /\ bundleID = Nil /\ currentCancel = 0 /\ logs = <<>>
  /\ running = {} /\ drainLeft = 0 /\ inFlight = 0
  /\ lastGood = [app |-> Nil, bid |-> Nil] /\ failStep = "none"
  /\ stepErrs = <<>>
  /\ wpc = "idle" /\ outClosed = FALSE /\ fsClosed = FALSE
  /\ timerArmed = FALSE /\ timerLeft = 0 /\ timerSrc = 0 /\ lastPath = Nil
  /\ cbs = {} /\ nEvents = 0 /\ fsHist = <<>> /\ sinceLast = Debounce + 1
  /\ offers = {} /\ delivered = {} /\ stoppedSrc = 0 /\ trace = FALSE
  /\ ExecIdle
  /\ spc = "resolve"
  /\ listOk \in BOOLEAN
  /\ simList \in IF listOk THEN RunSimLists ELSE {<<>>}
  /\ cfgDeviceName \in {<<>>, <<"a">>, <<"9">>}
  /\ cfgPlatform = "ios"
  /\ resolved = Failed(Nil)
  /\ SchemeIdle

\* Run from its first statement.
NextRun == RunResolve \/ Next

SpecRun == InitRun /\ [][NextRun]_vars

\* The session with its goroutines scheduled: a goroutine that can take a
\* step takes one, a select with a ready case takes one of its ready cases,
\* a started command ends, timers run.  Nothing is assumed of the
\* environment (Cancel, filesystem events).
FairSpec ==
  /\ Spec
  /\ WF_vars(Tick)
  /\ WF_vars(StepStart)
  /\ WF_vars(\E ok \in BOOLEAN, path \in AppPaths : FindAppStep(ok, path))
  /\ WF_vars(StepFinishFail \/ \E wok \in BOOLEAN : StepFinishOk(wok))
  /\ WF_vars(LoopReturn)
  /\ WF_vars(DrainDone)
  /\ WF_vars(ctxDone /\ StreamLogsReturn)
  /\ WF_vars(WatchCtxDone)
  /\ WF_vars(WatchEventsClosed)
  /\ WF_vars(TimerFire)
  /\ WF_vars(\E c \in cbs : CbRead(c))
  /\ WF_vars(\E c \in cbs : CbPark(c) \/ CbCtxDone(c) \/ CbPanic(c))

\* ------------------------------------------ process.Runner.Run, Build
Streams == {"stdout", "stderr"}
\* Lines the external build tool prints on stdout and on stderr.
StdoutLines == {SuccessLine, FailureLine, <<"note:", "x">>}
StderrLines == {<<"ld:", "x">>}
\* Lines of stderr that can be told apart.
StderrLinesOrder == {<<"ld:", "x">>, <<"ld:", "y">>}

SeqsUpTo(S, n) == UNION {[1..k -> S] : k \in 0..n}
Prefixes(q) == {SubSeq(q, 1, k) : k \in 0..Len(q)}

\* Variant that puts the result of cmd.Wait on the channel unconditionally.
ReportAlways(err) == <<err>>

\* if err := cmd.Wait(); err != nil { errChan <- err }
ReportWait(err) == IF err # Nil THEN <<err>> ELSE <<>>

\* Variant of wg.Wait that returns when one reader has finished.
OneReaderDone == \E s \in Streams : rd[s].st = "done"

\* wg.Wait(): both readers have called wg.Done().
ReadersDone == \A s \in Streams : rd[s].st = "done"

\* Variant of Build's loop exit that leaves when either channel is closed.
EitherClosed(bo, be) == bo \/ be

\* if outChan == nil && errChan == nil { break }
BothClosed(bo, be) == bo /\ be

\* Variant of cmd.Wait that reports the exit status alone.
WaitErrStatusOnly == IF proc = "exit0" THEN Nil ELSE "exit"

\* cmd.Wait() of a CommandContext (Go 1.21): an error unless the process
\* exited with status zero and ctx was not done before it was reaped.
WaitErr == IF proc = "exit0" /\ ~xctx THEN Nil ELSE "exit"


\* The goroutine of Run: StdoutPipe, StderrPipe, cmd.Start.  A failure puts
\* one error on errChan and returns; Start fails when ctx is already done.
ExecStart(ok) ==
  /\ xpc = "start"
  /\ xctx => ~ok
  /\ IF ok
       THEN /\ proc' = "running"
            /\ rd' = [s \in Streams |-> [rd[s] EXCEPT !.st = "scan"]]
            /\ xpc' = "wgwait"
            /\ hist' = [hist EXCEPT !.started = "ok"]
            /\ UNCHANGED errChan
       ELSE /\ Len(errChan) < ErrChanCap
            /\ errChan' = Append(errChan, "start")
            /\ xpc' = "closeErr"
            /\ hist' = [hist EXCEPT !.started = "fail",
                                    !.errSent = hist.errSent + 1]
            /\ UNCHANGED <<proc, rd>>
  /\ UNCHANGED <<sessVars, setupVars, logVars, parseVars, xctx, outChan, outCl, errCl, bpc, bOut, bErr,
                 result, retErr, parsed>>

\* scanner.Scan() returns a line.
RdScan(s) ==
  /\ rd[s].st = "scan" /\ rd[s].left # <<>>
  /\ rd' = [rd EXCEPT ![s] = [st |-> "send", left |-> Tail(rd[s].left),
                              cur |-> Head(rd[s].left)]]
  /\ UNCHANGED <<sessVars, setupVars, logVars, parseVars, xctx, proc, xpc, outChan, errChan, outCl, errCl,
                 bpc, bOut, bErr, result, retErr, parsed, hist>>

\* scanner.Scan() returns false: the pipe is at end of file.
RdEOF(s) ==
  /\ rd[s].st = "scan" /\ rd[s].left = <<>> /\ proc # "running"
  /\ rd' = [rd EXCEPT ![s].st = "done"]
  /\ UNCHANGED <<sessVars, setupVars, logVars, parseVars, xctx, proc, xpc, outChan, errChan, outCl, errCl,
                 bpc, bOut, bErr, result, retErr, parsed, hist>>

\* Variant of the channel send that puts the value ahead of the buffered
\* ones.
ChanSendFront(ch, v) == <<v>> \o ch

\* ch <- v on a buffered channel with room.
ChanSend(ch, v) == Append(ch, v)

\* select: case outChan <- OutputLine{Stream: s, Content: scanner.Text()}
RdSend(s) ==
  /\ rd[s].st = "send" /\ Len(outChan) < OutChanCap
  /\ outChan' = ChanSend(outChan, [Stream |-> s, Content |-> rd[s].cur])
  /\ rd' = [rd EXCEPT ![s].st = "scan", ![s].cur = <<>>]
  /\ hist' = [hist EXCEPT !.lateSend = hist.lateSend \/ outCl]
  /\ UNCHANGED <<sessVars, setupVars, logVars, parseVars, xctx, proc, xpc, errChan, outCl, errCl, bpc,
                 bOut, bErr, result, retErr, parsed>>

\* Variant of the reader's select that has the send case alone.
SelectSendOnly(done) == FALSE

\* The case <-ctx.Done() of the reader's select is ready.
SelectCtxDone(done) == done

\* select: case <-ctx.Done(): return
RdCtxDone(s) ==
  /\ rd[s].st = "send" /\ SelectCtxDone(xctx)
  /\ rd' = [rd EXCEPT ![s].st = "done", ![s].cur = <<>>]
  /\ UNCHANGED <<sessVars, setupVars, logVars, parseVars, xctx, proc, xpc, outChan, errChan, outCl, errCl,
                 bpc, bOut, bErr, result, retErr, parsed, hist>>

\* wg.Wait() returns.
ExecWgWait ==
  /\ xpc = "wgwait" /\ ReadersDone
  /\ xpc' = "cmdwait"
  /\ UNCHANGED <<sessVars, setupVars, logVars, parseVars, xctx, proc, rd, outChan, errChan, outCl, errCl,
                 bpc, bOut, bErr, result, retErr, parsed, hist>>

\* cmd.Wait() returns once the process has ended; its error, if any, is put
\* on errChan.
ExecCmdWait ==
  /\ xpc = "cmdwait" /\ proc # "running"
  /\ Len(errChan) + Len(ReportWait(WaitErr)) <= ErrChanCap
  /\ errChan' = errChan \o ReportWait(WaitErr)
  /\ hist' = [hist EXCEPT !.waited = TRUE,
                          !.waitErr = WaitErr,
                          !.errSent = hist.errSent + Len(ReportWait(WaitErr)),
                          !.lateSend = hist.lateSend
                                         \/ (errCl /\ ReportWait(WaitErr) # <<>>)]
  /\ xpc' = "closeErr"
  /\ UNCHANGED <<sessVars, setupVars, logVars, parseVars, xctx, proc, rd, outChan, outCl, errCl, bpc, bOut,
                 bErr, result, retErr, parsed>>

\* defer close(errChan)
ExecCloseErr ==
  /\ xpc = "closeErr"
  /\ errCl' = TRUE
  /\ xpc' = "closeOut"
  /\ UNCHANGED <<sessVars, setupVars, logVars, parseVars, xctx, proc, rd, outChan, errChan, outCl, bpc,
                 bOut, bErr, result, retErr, parsed, hist>>

\* defer close(outChan)
ExecCloseOut ==
  /\ xpc = "closeOut"
  /\ outCl' = TRUE
  /\ xpc' = "done"
  /\ UNCHANGED <<sessVars, setupVars, logVars, parseVars, xctx, proc, rd, outChan, errChan, errCl, bpc,
                 bOut, bErr, result, retErr, parsed, hist>>

\* The external process ends by itself with an exit status; what it wrote
\* stays readable in the pipes.
ProcExit(code) ==
  /\ proc = "running"
  /\ proc' = code
  /\ UNCHANGED <<sessVars, setupVars, logVars, parseVars, xctx, xpc, rd, outChan, errChan, outCl, errCl,
                 bpc, bOut, bErr, result, retErr, parsed, hist>>

\* The invocation's ctx is cancelled.  CommandContext kills a running
\* process; the output it had not yet written is lost.
XCancel ==
  /\ ~xctx /\ (bpc # "idle" \/ lgpc # "idle")
  /\ xctx' = TRUE
  /\ hist' = [hist EXCEPT !.cancelInFlight =
                            ~hist.waited /\ hist.started # "fail"]
  /\ IF proc = "running"
       THEN /\ proc' = "killed"
            /\ \E so \in Prefixes(rd["stdout"].left),
                  se \in Prefixes(rd["stderr"].left) :
                 rd' = [rd EXCEPT !["stdout"].left = so,
                                  !["stderr"].left = se]
       ELSE UNCHANGED <<proc, rd>>
  /\ UNCHANGED <<sessVars, setupVars, logVars, parseVars, xpc, outChan, errChan, outCl, errCl, bpc, bOut,
                 bErr, result, retErr, parsed>>

\* Variant of the error case that leaves Success as the parser set it.
SuccessKeptOnError(cur) == cur

\* result.Success = false
SuccessOnError(cur) == FALSE

\* fmt.Errorf("build failed: %w", err)
WrapBuildErr(err) ==
  IF err = "start" THEN "build failed: start" ELSE "build failed: exit"

\* Build's loop leaves after a case when both channel variables are nil:
\* return result, nil.
BuildAfterCase(bo, be) ==
  bpc' = IF BothClosed(bo, be) THEN "returned" ELSE bpc

\* parser.parseLine(line.Content): the Result is updated and the line's
\* event, if any, is put on p.events when that channel is not nil.  Each
\* event is recorded with the position of its line.
ParserStep(line) ==
  /\ result' = parseLine(result, line.Content)
  /\ emitted' = IF sink
                  THEN emitted \o [i \in 1..Len(EmitOf(line.Content)) |->
                                     [at |-> Len(parsed) + 1,
                                      ev |-> EmitOf(line.Content)[i]]]
                  ELSE emitted
  /\ parsed' = Append(parsed, line)

\* case <-ctx.Done(): return nil, ctx.Err()
BuildCtxDone ==
  /\ bpc = "loop" /\ xctx
  /\ bpc' = "returned"
  /\ result' = NilResult
  /\ retErr' = "ctx"
  /\ UNCHANGED <<sessVars, setupVars, logVars, parseVars, xctx, proc, xpc, rd, outChan, errChan, outCl,
                 errCl, bOut, bErr, parsed, hist>>

\* case line, ok := <-outChan with ok: parser.parseLine(line.Content)
BuildRecvLine ==
  /\ bpc = "loop" /\ ~bOut /\ outChan # <<>>
  /\ ParserStep(Head(outChan))
  /\ outChan' = Tail(outChan)
  /\ BuildAfterCase(bOut, bErr)
  /\ UNCHANGED <<sessVars, setupVars, logVars, feed, sink, xctx, proc, xpc, rd, errChan, outCl,
                 errCl, bOut, bErr, retErr, hist>>

\* case line, ok := <-outChan with !ok: outChan = nil
BuildOutClosed ==
  /\ bpc = "loop" /\ ~bOut /\ outChan = <<>> /\ outCl
  /\ bOut' = TRUE
  /\ BuildAfterCase(TRUE, bErr)
  /\ UNCHANGED <<sessVars, setupVars, logVars, parseVars, xctx, proc, xpc, rd, outChan, errChan, outCl,
                 errCl, bErr, result, retErr, parsed, hist>>

\* case err, ok := <-errChan with ok: a non-nil err forces Success = false
\* and returns result with the wrapped error; a nil err is dropped.
BuildRecvErr ==
  /\ bpc = "loop" /\ ~bErr /\ errChan # <<>>
  /\ errChan' = Tail(errChan)
  /\ IF Head(errChan) # Nil
       THEN /\ result' = [result EXCEPT !.Success = SuccessOnError(result.Success)]
            /\ retErr' = WrapBuildErr(Head(errChan))
            /\ bpc' = "returned"
       ELSE /\ BuildAfterCase(bOut, bErr)
            /\ UNCHANGED <<result, retErr>>
  /\ UNCHANGED <<sessVars, setupVars, logVars, parseVars, xctx, proc, xpc, rd, outChan, outCl, errCl, bOut,
                 bErr, parsed, hist>>

\* case err, ok := <-errChan with !ok: errChan = nil
BuildErrClosed ==
  /\ bpc = "loop" /\ ~bErr /\ errChan = <<>> /\ errCl
  /\ bErr' = TRUE
  /\ BuildAfterCase(bOut, TRUE)
  /\ UNCHANGED <<sessVars, setupVars, logVars, parseVars, xctx, proc, xpc, rd, outChan, errChan, outCl,
                 errCl, bOut, result, retErr, parsed, hist>>

\* No run session: the session variables rest.
SessionIdle ==
  /\ ctxDone = FALSE /\ crashed = FALSE
  /\ cfgWatch = FALSE /\ devState = "Booted" /\ devBooted = TRUE
  /\ pc = "returned" /\ step = "build" /\ phase = "start"
  /\ cycleNo = 0 /\ cmds = <<>> /\ cycleApp = Nil /\ cycleBID = Nil
  /\ appPath = Nil /\ bundleID = Nil /\ currentCancel = 0 /\ logs = <<>>
  /\ running = {} /\ drainLeft = 0 /\ inFlight = 0
  /\ lastGood = [app |-> Nil, bid |-> Nil] /\ failStep = "none"
  /\ stepErrs = <<>>
  /\ wpc = "idle" /\ outClosed = FALSE /\ fsClosed = FALSE
  /\ timerArmed = FALSE /\ timerLeft = 0 /\ timerSrc = 0 /\ lastPath = Nil
  /\ cbs = {} /\ nEvents = 0 /\ fsHist = <<>> /\ sinceLast = 0
  /\ offers = {} /\ delivered = {} /\ stoppedSrc = 0 /\ trace = FALSE
  /\ SetupIdle

\* Build has called b.runner.Run(ctx, "xcodebuild", args) and enters its
\* loop; the process will print the chosen lines if it is left to run.
ExecInitial(so, se, rec) ==
  /\ SessionIdle
  /\ xctx = FALSE /\ proc = "none" /\ xpc = "start"
  /\ rd = [s \in Streams |->
            [st |-> "idle", left |-> IF s = "stdout" THEN so ELSE se,
             cur |-> <<>>]]
  /\ outChan = <<>> /\ errChan = <<>> /\ outCl = FALSE /\ errCl = FALSE
  /\ bpc = "loop" /\ bOut = FALSE /\ bErr = FALSE
  /\ result = NewResult /\ retErr = Nil /\ parsed = <<>>
  /\ hist = IF rec
              THEN [HistInit EXCEPT !.script = [s \in Streams |-> rd[s].left]]
              ELSE HistInit
  /\ feed = <<>> /\ sink = TRUE /\ emitted = <<>>
  /\ LogIdle

InitExec ==
  \E so \in SeqsUpTo(StdoutLines, MaxLines),
     se \in SeqsUpTo(StderrLines, MaxLines) : ExecInitial(so, se, FALSE)

\* The same invocation with what each stream will produce kept on record.
InitOrder ==
  \E so \in SeqsUpTo(StdoutLines, MaxLines),
     se \in SeqsUpTo(StderrLinesOrder, MaxLines) : ExecInitial(so, se, TRUE)

NextExec ==
  \/ XCancel
  \/ \E ok \in BOOLEAN : ExecStart(ok)
  \/ \E s \in Streams : RdScan(s)
  \/ \E s \in Streams : RdEOF(s)
  \/ \E s \in Streams : RdSend(s)
  \/ \E s \in Streams : RdCtxDone(s)
  \/ ExecWgWait
  \/ ExecCmdWait
  \/ ExecCloseErr
  \/ ExecCloseOut
  \/ \E code \in {"exit0", "exit1"} : ProcExit(code)
  \/ BuildCtxDone
  \/ BuildRecvLine
  \/ BuildOutClosed
  \/ BuildRecvErr
  \/ BuildErrClosed

SpecExec == InitExec /\ [][NextExec]_vars

SpecOrder == InitOrder /\ [][NextExec]_vars

\* The Go scheduler runs every goroutine that can take a step, and a
\* process left to run ends.
FairExec ==
  /\ SpecExec
  /\ WF_vars(\E ok \in BOOLEAN : ExecStart(ok))
  /\ \A s \in Streams : WF_vars(RdScan(s))
  /\ \A s \in Streams : WF_vars(RdEOF(s))
  /\ \A s \in Streams : WF_vars(RdSend(s) \/ RdCtxDone(s))
  /\ WF_vars(ExecWgWait)
  /\ WF_vars(ExecCmdWait)
  /\ WF_vars(ExecCloseErr)
  /\ WF_vars(ExecCloseOut)
  /\ WF_vars(\E code \in {"exit0", "exit1"} : ProcExit(code))
  /\ WF_vars(BuildCtxDone \/ BuildRecvLine \/ BuildOutClosed
               \/ BuildRecvErr \/ BuildErrClosed)

\* ------------------------------------------------ LogStreamer.Stream
\* The goroutine of Stream reads the executor's two channels (l.runner.Run
\* with the stream's ctx) and forwards each line's Content; its consumer is
\* Runner.streamLogs in a one-shot run and the relay goroutine of startLogs
\* in a watch session.  outChan has the capacity of the executor's line
\* channel, make(chan string, 100), errChan has capacity one.
LogLines == {<<"log">>}

\* if lines == nil && errs == nil { break }, then the deferred closes.
LgAfterCase(ln, er) == lgpc' = IF ln /\ er THEN "closeErr" ELSE "loop"

\* Stream: case <-ctx.Done(): return
LgCtxDone ==
  /\ lgpc = "loop" /\ xctx
  /\ lgpc' = "closeErr"
  /\ UNCHANGED <<sessVars, setupVars, buildVars, xctx, proc, xpc, rd,
                 outChan, errChan, outCl, errCl, hist, lmode, lgLines,
                 lgErrs, lgCur, logOut, logErr, logOutCl, logErrCl, slpc,
                 slRet, slSpun>>

\* Stream: case line, ok := <-lines with ok
LgRecvLine ==
  /\ lgpc = "loop" /\ ~lgLines /\ outChan # <<>>
  /\ lgCur' = Head(outChan).Content
  /\ outChan' = Tail(outChan)
  /\ lgpc' = "sendLine"
  /\ UNCHANGED <<sessVars, setupVars, buildVars, xctx, proc, xpc, rd,
                 errChan, outCl, errCl, hist, lmode, lgLines, lgErrs,
                 logOut, logErr, logOutCl, logErrCl, slpc, slRet, slSpun>>

\* Stream: outChan <- line.Content, a send outside any select.
LgSendLine ==
  /\ lgpc = "sendLine" /\ Len(logOut) < OutChanCap
  /\ logOut' = Append(logOut, lgCur)
  /\ lgCur' = <<>>
  /\ LgAfterCase(lgLines, lgErrs)
  /\ UNCHANGED <<sessVars, setupVars, buildVars, xctx, proc, xpc, rd,
                 outChan, errChan, outCl, errCl, hist, lmode, lgLines,
                 lgErrs, logErr, logOutCl, logErrCl, slpc, slRet, slSpun>>

\* Stream: case line, ok := <-lines with !ok: lines = nil
LgLinesClosed ==
  /\ lgpc = "loop" /\ ~lgLines /\ outChan = <<>> /\ outCl
  /\ lgLines' = TRUE
  /\ LgAfterCase(TRUE, lgErrs)
  /\ UNCHANGED <<sessVars, setupVars, buildVars, xctx, proc, xpc, rd,
                 outChan, errChan, outCl, errCl, hist, lmode, lgErrs, lgCur,
                 logOut, logErr, logOutCl, logErrCl, slpc, slRet, slSpun>>

\* Stream: case err, ok := <-errs with ok: a non-nil error is put on the
\* stream's errChan and the goroutine returns.
LgRecvErr ==
  /\ lgpc = "loop" /\ ~lgErrs /\ errChan # <<>>
  /\ errChan' = Tail(errChan)
  /\ IF Head(errChan) # Nil
       THEN /\ Len(logErr) < ErrChanCap
            /\ logErr' = Append(logErr, Head(errChan))
            /\ lgpc' = "closeErr"
            /\ UNCHANGED lgErrs
       ELSE /\ lgErrs' = TRUE
            /\ LgAfterCase(lgLines, TRUE)
            /\ UNCHANGED logErr
  /\ UNCHANGED <<sessVars, setupVars, buildVars, xctx, proc, xpc, rd,
                 outChan, outCl, errCl, hist, lmode, lgLines, lgCur, logOut,
                 logOutCl, logErrCl, slpc, slRet, slSpun>>

\* Stream: case err, ok := <-errs with !ok: errs = nil
LgErrsClosed ==
  /\ lgpc = "loop" /\ ~lgErrs /\ errChan = <<>> /\ errCl
  /\ lgErrs' = TRUE
  /\ LgAfterCase(lgLines, TRUE)
  /\ UNCHANGED <<sessVars, setupVars, buildVars, xctx, proc, xpc, rd,
                 outChan, errChan, outCl, errCl, hist, lmode, lgLines, lgCur,
                 logOut, logErr, logOutCl, logErrCl, slpc, slRet, slSpun>>

\* Stream: defer close(errChan)
LgCloseErr ==
  /\ lgpc = "closeErr"
  /\ logErrCl' = TRUE
  /\ lgpc' = "closeOut"
  /\ UNCHANGED <<sessVars, setupVars, buildVars, xctx, proc, xpc, rd,
                 outChan, errChan, outCl, errCl, hist, lmode, lgLines,
                 lgErrs, lgCur, logOut, logErr, logOutCl, slpc, slRet,
                 slSpun>>

\* Variant of the goroutine's return that leaves the channel as it is.
LeftOpen(closed) == closed

\* close(ch): the channel is closed.
Closed(closed) == TRUE

\* Stream: defer close(outChan)
LgCloseOut ==
  /\ lgpc = "closeOut"
  /\ logOutCl' = Closed(logOutCl)
  /\ lgpc' = "done"
  /\ UNCHANGED <<sessVars, setupVars, buildVars, xctx, proc, xpc, rd,
                 outChan, errChan, outCl, errCl, hist, lmode, lgLines,
                 lgErrs, lgCur, logOut, logErr, logErrCl, slpc, slRet,
                 slSpun>>

\* What the consumer leaves alone.
ConsumerFrame ==
  UNCHANGED <<sessVars, setupVars, buildVars, xctx, proc, xpc, rd, outChan,
              errChan, outCl, errCl, hist, lmode, lgpc, lgLines, lgErrs,
              lgCur, logOutCl, logErrCl>>

\* streamLogs: case <-ctx.Done(): return nil
SlCtxDone ==
  /\ lmode = "oneshot" /\ slpc = "loop" /\ xctx
  /\ slpc' = "returned" /\ slRet' = "nil"
  /\ UNCHANGED <<logOut, logErr, slSpun>>
  /\ ConsumerFrame

\* streamLogs: case line, ok := <-logs with ok: fmt.Println(line)
SlRecvLine ==
  /\ lmode = "oneshot" /\ slpc = "loop" /\ logOut # <<>>
  /\ logOut' = Tail(logOut)
  /\ UNCHANGED <<logErr, slpc, slRet, slSpun>>
  /\ ConsumerFrame

\* streamLogs: case line, ok := <-logs with !ok: return nil
SlLogsClosed ==
  /\ lmode = "oneshot" /\ slpc = "loop" /\ logOut = <<>> /\ logOutCl
  /\ slpc' = "returned" /\ slRet' = "nil"
  /\ UNCHANGED <<logOut, logErr, slSpun>>
  /\ ConsumerFrame

\* streamLogs: case err := <-errs with a value: return err
SlRecvErr ==
  /\ lmode = "oneshot" /\ slpc = "loop" /\ logErr # <<>>
  /\ logErr' = Tail(logErr)
  /\ slpc' = "returned" /\ slRet' = Head(logErr)
  /\ UNCHANGED <<logOut, slSpun>>
  /\ ConsumerFrame

\* streamLogs: case err := <-errs on the closed channel: err is nil and the
\* loop goes round again.
SlErrsClosed ==
  /\ lmode = "oneshot" /\ slpc = "loop" /\ logErr = <<>> /\ logErrCl
  /\ slSpun' = TRUE
  /\ UNCHANGED <<logOut, logErr, slpc, slRet>>
  /\ ConsumerFrame

\* startLogs' goroutine: for line := range logs { fmt.Println(line) }
RelayRecv ==
  /\ lmode = "watch" /\ slpc = "loop" /\ logOut # <<>>
  /\ logOut' = Tail(logOut)
  /\ UNCHANGED <<logErr, slpc, slRet, slSpun>>
  /\ ConsumerFrame

\* startLogs' goroutine: logs is closed and empty, the range ends.
RelayEnd ==
  /\ lmode = "watch" /\ slpc = "loop" /\ logOut = <<>> /\ logOutCl
  /\ slpc' = "returned"
  /\ UNCHANGED <<logOut, logErr, slRet, slSpun>>
  /\ ConsumerFrame

\* Stream has called l.runner.Run(ctx, "xcrun", args) and its consumer has
\* entered its loop; the log process prints the chosen lines if it is left
\* to run.
InitLogs ==
  /\ SessionIdle
  /\ xctx = FALSE /\ proc = "none" /\ xpc = "start"
  /\ \E so \in SeqsUpTo(LogLines, MaxLines + 1),
        se \in SeqsUpTo(LogLines, 1) :
       rd = [s \in Streams |->
              [st |-> "idle", left |-> IF s = "stdout" THEN so ELSE se,
               cur |-> <<>>]]
  /\ outChan = <<>> /\ errChan = <<>> /\ outCl = FALSE /\ errCl = FALSE
  /\ bpc = "idle" /\ bOut = FALSE /\ bErr = FALSE
  /\ result = NewResult /\ retErr = Nil /\ parsed = <<>>
  /\ hist = HistInit
  /\ feed = <<>> /\ sink = TRUE /\ emitted = <<>>
  /\ lmode \in {"oneshot", "watch"}
  /\ lgpc = "loop" /\ lgLines = FALSE /\ lgErrs = FALSE /\ lgCur = <<>>
  /\ logOut = <<>> /\ logErr = <<>> /\ logOutCl = FALSE /\ logErrCl = FALSE
  /\ slpc = "loop" /\ slRet = Nil /\ slSpun = FALSE

ExecSteps ==
  \/ \E ok \in BOOLEAN : ExecStart(ok)
  \/ \E s \in Streams : RdScan(s)
  \/ \E s \in Streams : RdEOF(s)
  \/ \E s \in Streams : RdSend(s)
  \/ \E s \in Streams : RdCtxDone(s)
  \/ ExecWgWait
  \/ ExecCmdWait
  \/ ExecCloseErr
  \/ ExecCloseOut
  \/ \E code \in {"exit0", "exit1"} : ProcExit(code)

NextLogs ==
  \/ XCancel
  \/ ExecSteps
  \/ LgCtxDone
  \/ LgRecvLine
  \/ LgSendLine
  \/ LgLinesClosed
  \/ LgRecvErr
  \/ LgErrsClosed
  \/ LgCloseErr
  \/ LgCloseOut
  \/ SlCtxDone
  \/ SlRecvLine
  \/ SlLogsClosed
  \/ SlRecvErr
  \/ SlErrsClosed
  \/ RelayRecv
  \/ RelayEnd

SpecLogs == InitLogs /\ [][NextLogs]_vars

\* The Go scheduler runs every goroutine that can take a step.  The log
\* process is not assumed to end by itself.
FairLogs ==
  /\ SpecLogs
  /\ WF_vars(\E ok \in BOOLEAN : ExecStart(ok))
  /\ \A s \in Streams : WF_vars(RdScan(s))
  /\ \A s \in Streams : WF_vars(RdEOF(s))
  /\ \A s \in Streams : WF_vars(RdSend(s) \/ RdCtxDone(s))
  /\ WF_vars(ExecWgWait)
  /\ WF_vars(ExecCmdWait)
  /\ WF_vars(ExecCloseErr)
  /\ WF_vars(ExecCloseOut)
  /\ WF_vars(LgCtxDone \/ LgRecvLine \/ LgLinesClosed \/ LgRecvErr
               \/ LgErrsClosed)
  /\ WF_vars(LgSendLine)
  /\ WF_vars(LgCloseErr)
  /\ WF_vars(LgCloseOut)
  /\ WF_vars(RelayRecv)
  /\ WF_vars(RelayEnd)

\* ------------------------------------------ the parser fed with lines
\* Lines fed to the parser: one for each recognizer, blank lines, lines that
\* nothing matches, and lines that more than one pattern matches.
ParserLines ==
  { <<>>,
    <<Blank>>,
    <<"CompileSwift", "normal", "arm64", "Foo.swift">>,
    <<"Foo.swift:10:3:", "error:", "missing", "return">>,
    <<"Bar.swift:7:1:", "warning:", "unused">>,
    <<"Linking", "App">>,
    <<"CodeSign", "App">>,
    SuccessLine,
    FailureLine,
    <<Blank, FailureSentinel, Blank>>,
    <<"note:", "x">>,
    <<"CompileSwift", "Foo.swift">>,
    <<"Foo.swift:10:3:", "error:">>,
    <<"Linking", FailureSentinel>>,
    <<"Foo.swift:10:3:", "error:", FailureSentinel>> }

\* One call of parser.parseLine on the next line.
ParseNext ==
  /\ bpc = "parsing" /\ feed # <<>>
  /\ ParserStep([Stream |-> "stdout", Content |-> Head(feed)])
  /\ feed' = Tail(feed)
  /\ UNCHANGED <<sessVars, setupVars, logVars, sink, xctx, proc, xpc, rd, outChan, errChan,
                 outCl, errCl, bpc, bOut, bErr, retErr, hist>>

\* A parser over a fresh Result, with or without an events channel, and the
\* lines it is going to be fed.
InitParse ==
  /\ SessionIdle
  /\ xctx = FALSE /\ proc = "none" /\ xpc = "idle"
  /\ rd = [s \in Streams |-> [st |-> "idle", left |-> <<>>, cur |-> <<>>]]
  /\ outChan = <<>> /\ errChan = <<>> /\ outCl = FALSE /\ errCl = FALSE
  /\ bpc = "parsing" /\ bOut = FALSE /\ bErr = FALSE
  /\ result = NewResult /\ retErr = Nil /\ parsed = <<>>
  /\ hist = HistInit
  /\ feed \in SeqsUpTo(ParserLines, MaxFeed)
  /\ sink \in BOOLEAN
  /\ emitted = <<>>
  /\ LogIdle

NextParse == ParseNext

SpecParse == InitParse /\ [][NextParse]_vars

\* ---------------------------------------------------------------------
\* SpecResolve: Run resolves its device from the output of simctl list.
\* ---------------------------------------------------------------------
\* The session and executor variables rest; only the setup runs.
AllIdle ==
  /\ ctxDone = FALSE /\ crashed = FALSE
  /\ cfgWatch = FALSE /\ devState = "Booted" /\ devBooted = TRUE
  /\ pc = "returned" /\ step = "build" /\ phase = "start"
  /\ cycleNo = 0 /\ cmds = <<>> /\ cycleApp = Nil /\ cycleBID = Nil
  /\ appPath = Nil /\ bundleID = Nil /\ currentCancel = 0 /\ logs = <<>>
  /\ running = {} /\ drainLeft = 0 /\ inFlight = 0
  /\ lastGood = [app |-> Nil, bid |-> Nil] /\ failStep = "none"
  /\ stepErrs = <<>>
  /\ wpc = "idle" /\ outClosed = FALSE /\ fsClosed = FALSE
  /\ timerArmed = FALSE /\ timerLeft = 0 /\ timerSrc = 0 /\ lastPath = Nil
  /\ cbs = {} /\ nEvents = 0 /\ fsHist = <<>> /\ sinceLast = 0
  /\ offers = {} /\ delivered = {} /\ stoppedSrc = 0 /\ trace = FALSE
  /\ ExecIdle

InitResolve ==
  /\ AllIdle
  /\ spc = "resolve"
  /\ listOk \in BOOLEAN
  /\ simList \in IF listOk THEN SimLists ELSE {<<>>}
  /\ cfgDeviceName \in DeviceQueries
  /\ cfgPlatform \in Platforms
  /\ resolved = Failed(Nil)
  /\ SchemeIdle

NextResolve == ResolveDeviceStep

SpecResolve == InitResolve /\ [][NextResolve]_vars

\* ---------------------------------------------------------------------
\* SpecScheme: a build cycle up to the location of the built product.
\* ---------------------------------------------------------------------
InitScheme ==
  /\ AllIdle
  /\ spc = "scheme"
  /\ simList = <<>> /\ listOk = TRUE
  /\ cfgDeviceName = <<>> /\ cfgPlatform = "ios"
  /\ resolved = Failed(Nil)
  /\ cfgScheme \in SchemeNames \cup {""}
  /\ projSchemes \in SeqsUpTo(SchemeNames, MaxSchemes)
  /\ projName \in ProjectNames
  /\ apps \in SeqsUpTo(ProductNames, MaxSchemes)
  /\ used = NoScheme

NextScheme == SchemeStep \/ FindAppCall

SpecScheme == InitScheme /\ [][NextScheme]_vars

\* =================================================================
\* Properties
\* =================================================================
InCmds(c) == \E i \in 1..Len(cmds) : cmds[i] = c

\* C1: in a watch session at most one build cycle is in flight, and a
\* Change Event, also one that became available while a build cycle was
\* executing, is received by the watch loop only when no build cycle is
\* executing.
C1_OneBuildInFlight ==
  /\ inFlight <= 1
  /\ \A d \in delivered : d.at # "cycle"

\* A Change Event that became available during a build cycle has been
\* received after the cycle returned.
C1_Witness == \E d \in delivered : d.inBuild /\ d.at \in {"wait", "drain"}

\* C2: at most one log stream has a context that is not cancelled, and
\* whenever a log stream is created every earlier one has had its
\* cancellation handle invoked.
C2_OneLogStream ==
  /\ [](Cardinality(ActiveLogs) <= 1)
  /\ [][(cfgWatch /\ Len(logs') > Len(logs))
         => \A i \in 1..Len(logs) : logs'[i].cancelled]_vars

\* Three log streams have been started (initial start and two rebuilds, one
\* of them failed) and exactly one is active.
C2_Witness ==
  /\ Len(logs) >= 3
  /\ Cardinality(ActiveLogs) = 1
  /\ failStep # "none"

\* C3: when a rebuild fails after a successful initial run, the loop goes
\* back to its select and the log stream it starts is for the identifier of
\* the last successful cycle.
C3_FailedRebuildResumes ==
  [][(pc = "cycle" /\ cycleNo > 1 /\ pc' # "cycle" /\ failStep' # "none")
      => /\ pc' = "wait"
         /\ Len(logs') = Len(logs) + 1
         /\ logs'[Len(logs')] = NewLog(lastGood.bid)
         /\ currentCancel' = Len(logs')]_vars

\* A rebuild failed after it had extracted an identifier different from the
\* running one, and the logs were restarted for the running one.
C3_Witness ==
  /\ cycleNo > 1 /\ pc = "wait" /\ failStep # "none"
  /\ cycleBID # Nil /\ cycleBID # lastGood.bid
  /\ logs[Len(logs)].bid = lastGood.bid

\* C4 as stated: a rebuild cycle that ended in failure, at whichever step,
\* has issued no terminate command.
C4_NoTerminateOnAnyFailure ==
  (cycleNo > 1 /\ pc # "cycle" /\ failStep # "none") => ~InCmds("terminate")

\* C4 amended: a rebuild cycle that failed at build, artifact lookup,
\* identifier extraction, boot or install has issued neither terminate nor
\* launch.
C4_NoTerminateBeforeLaunch ==
  (cycleNo > 1 /\ pc # "cycle"
     /\ failStep \in {"build", "find", "extract", "boot", "install"})
    => ~InCmds("terminate") /\ ~InCmds("launch")

\* A rebuild failed at install and no terminate command was issued.
C4_Witness ==
  /\ cycleNo > 1 /\ pc = "wait" /\ failStep = "install"
  /\ InCmds("install") /\ ~InCmds("terminate")

\* ----------------------------------------------------- debounce
\* The recorded qualifying events are fsHist[1..NQ]; gap is the number of
\* ticks since the previous qualifying event (Debounce + 1: more).
NQ == Len(fsHist)

\* Event k came more than the window after the event before it: a later
\* tick, or the tick of the expiry of the timer that event armed, after the
\* expiry.
Separated(k) ==
  \/ fsHist[k].gap > Debounce
  \/ fsHist[k].gap = Debounce /\ fsHist[k].late

\* Events i..j form a burst: it starts more than the window after the
\* previous event and each later event comes less than the window after
\* the one before it.
BurstFrom(i, j) ==
  /\ i <= j
  /\ Separated(i)
  /\ \A k \in (i + 1)..j : fsHist[k].gap < Debounce

\* No event came within the window after event j.
QuietAfter(j) ==
  IF j = NQ THEN sinceLast > Debounce ELSE fsHist[j + 1].gap > Debounce

\* The Change Events constructed by the callbacks of the timers that events
\* i..j armed.
OffersOf(i, j) == {o \in offers : \E k \in i..j : fsHist[k].id = o.src}

OfferFor(j) == [src |-> fsHist[j].id, p |-> fsHist[j].path]

C6_SeparateEvents ==
  \A k \in 1..(NQ - 1) :
    Separated(k + 1)
      => /\ OffersOf(k, k + 1) \subseteq {OfferFor(k), OfferFor(k + 1)}
         /\ (QuietAfter(k + 1) /\ stoppedSrc # fsHist[k + 1].id)
              => OffersOf(k, k + 1) = {OfferFor(k), OfferFor(k + 1)}

\* Event m was recorded in the tick in which the timer of event k expired.
RecordedAtExpiry(k, m) ==
  /\ m > k
  /\ fsHist[k + 1].gap = Debounce
  /\ \A n \in (k + 2)..m : fsHist[n].gap = 0

\* C6 amended: two qualifying events separated by more than the debounce window yield
\* two Change Events, one per timer.  The Change Event of the first carries
\* the path recorded last when its callback reads it: the first event's
\* path, or the path of an event recorded between the expiry of the timer
\* and the read.  The Change Event of the second carries the second event's
\* path once the window has passed after it with no further event.
C6_SeparateEventsLatestPath ==
  \A k \in 1..(NQ - 1) :
    Separated(k + 1)
      => /\ \A o \in OffersOf(k, k) :
              \/ o.p = fsHist[k].path
              \/ \E m \in (k + 1)..NQ :
                   RecordedAtExpiry(k, m) /\ o.p = fsHist[m].path
         /\ Cardinality(OffersOf(k, k)) <= 1
         /\ Cardinality(OffersOf(k + 1, k + 1)) <= 1
         /\ fsHist[k + 1].gap > Debounce => OfferFor(k) \in offers
         /\ (QuietAfter(k + 1) /\ stoppedSrc # fsHist[k + 1].id)
              => /\ OfferFor(k + 1) \in offers
                 /\ Cardinality(OffersOf(k, k + 1)) = 2

\* The second event came just after the expiry of the first one's timer:
\* both Change Events carry the second path.
C6_Witness ==
  \E k \in 1..(NQ - 1) :
    /\ Separated(k + 1) /\ fsHist[k + 1].gap = Debounce
    /\ fsHist[k].path # fsHist[k + 1].path
    /\ OffersOf(k, k + 1) = {[src |-> fsHist[k].id, p |-> fsHist[k + 1].path],
                             OfferFor(k + 1)}

\* C7 as stated: at every point at most one debounce trigger is pending,
\* counting the armed timer and the timer callbacks that have not yet
\* delivered their Change Event.
C7_SinglePendingTrigger ==
  Cardinality(cbs) + (IF timerArmed THEN 1 ELSE 0) <= 1

\* The invocation failed to launch, or its process ended with a non-zero
\* status.
ExecFailed == hist.started = "fail" \/ proc \in {"exit1", "killed"}

\* The goroutine of Run is past its one place of report.
ExecReported == xpc \in {"closeErr", "closeOut", "done"}

C8_ReportedOnce ==
  /\ ~hist.lateSend
  /\ hist.errSent <= 1
  /\ ExecReported /\ ExecFailed => hist.errSent = 1
  /\ ExecReported /\ proc = "exit0" /\ ~hist.cancelInFlight =>
       hist.errSent = 0
  /\ xpc = "done" => outCl /\ errCl
  /\ outCl => errCl /\ ExecReported

SuccessWithNilError ==
  bpc = "returned" /\ ~result.isNil /\ result.Success /\ retErr = Nil

\* C9: once the ctx of an invocation is cancelled before its process has
\* been reaped, both channels get closed, and Build does not return a Result
\* with Success = true and a nil error.
C9_CancelClosesNoSuccess ==
  /\ hist.cancelInFlight ~> (outCl /\ errCl)
  /\ [](hist.cancelInFlight => ~SuccessWithNilError)

\* An invocation cancelled in flight whose process had printed the success
\* line: both channels are closed and Build has returned an error.
C9_Witness ==
  /\ hist.cancelInFlight /\ outCl /\ errCl
  /\ bpc = "returned" /\ ~result.isNil /\ retErr # Nil
  /\ \E i \in 1..Len(parsed) : parsed[i].Content = SuccessLine

\* C10: Build returns a Result only when the external process is no longer
\* running, and returns a Result with a nil error only after it has seen
\* both channels closed, the goroutine of the invocation being over.
C10_ResultAfterExit ==
  bpc = "returned" /\ ~result.isNil =>
    /\ proc # "running"
    /\ retErr = Nil =>
         bOut /\ bErr /\ outCl /\ errCl /\ xpc = "done" /\ outChan = <<>>

\* Build has returned a successful Result with a nil error after parsing
\* every line of a process that was started.
C10_Witness ==
  /\ bpc = "returned" /\ ~result.isNil /\ retErr = Nil /\ result.Success
  /\ hist.started = "ok" /\ Len(parsed) = MaxLines

\* C11 as stated: when Build returns a Result, every line that the Process
\* Executor delivered on its line channel has been handed to parseLine, in
\* the order of arrival, whether the process ended with status zero or not:
\* no delivered line of an invocation that was not cancelled is left in the
\* channel.
C11_EveryLineParsed ==
  bpc = "returned" /\ ~result.isNil /\ ~xctx => outChan = <<>>

\* The lines Build has handed to parseLine.
ParsedLines == [i \in 1..Len(parsed) |-> parsed[i].Content]

\* The positions of the lines of q that parseLine takes as a sentinel.
SentinelAt(q) ==
  {i \in 1..Len(q) : Classify(q[i]) \in {"success", "failure"}}

\* The kind of the last sentinel line of q, "none" when q has no sentinel.
LastSentinel(q) ==
  IF SentinelAt(q) = {} THEN "none"
  ELSE Classify(q[CHOOSE i \in SentinelAt(q) : \A j \in SentinelAt(q) : j <= i])

SawSuccess(q) == \E i \in 1..Len(q) : Classify(q[i]) = "success"
SawFailure(q) == \E i \in 1..Len(q) : Classify(q[i]) = "failure"

\* Build has returned from an invocation that was not cancelled and whose
\* process ended with the given status.
ReturnedAfter(status) == bpc = "returned" /\ ~xctx /\ proc = status

\* A non-zero exit gives a Result with Success = false and the wrapped
\* process error.
NonZeroExitResult ==
  ReturnedAfter("exit1") =>
    ~result.isNil /\ ~result.Success /\ retErr = WrapBuildErr("exit")

\* C12 as stated: a non-zero exit gives Success = false with the wrapped
\* process error; a zero exit after which a failure sentinel or no success
\* sentinel was seen gives Success = false with a nil error.
C12_FailureOutcomes ==
  /\ NonZeroExitResult
  /\ (ReturnedAfter("exit0")
        /\ (SawFailure(ParsedLines) \/ ~SawSuccess(ParsedLines)))
       => ~result.isNil /\ ~result.Success /\ retErr = Nil

\* C12 amended: a non-zero exit gives Success = false with the wrapped
\* process error; a zero exit gives a nil error, with Success = false when
\* the last sentinel line seen is a failure sentinel or no sentinel line was
\* seen, and Success = true when the last sentinel line is a success
\* sentinel, also after an earlier failure sentinel.
C12_FailureOutcomesLastSentinel ==
  /\ NonZeroExitResult
  /\ ReturnedAfter("exit0") =>
       /\ ~result.isNil /\ retErr = Nil
       /\ result.Success <=> LastSentinel(ParsedLines) = "success"

\* A process that printed the success sentinel ended with a non-zero status:
\* the sentinel was parsed and Build returned Success = false with the error.
C12_Witness ==
  /\ ReturnedAfter("exit1") /\ LastSentinel(ParsedLines) = "success"
  /\ ~result.Success /\ retErr = WrapBuildErr("exit")

\* The events put on the events channel, in the order of the sends.
EmittedEvents == [i \in 1..Len(emitted) |-> emitted[i].ev]

IsWarningEvent(e) == e.Type = "warning"
IsErrorEvent(e) == e.Type = "error"

\* C13: for every sequence of lines fed to a parser that has an events
\* channel, the events are emitted in the order of the lines, at most one
\* for a line and one for every recognized line, and Result.Warnings and
\* Result.Errors are the warning events and the error events emitted, each
\* once and in the same order.
C13_EventsAndLists ==
  sink =>
    /\ \A i \in 1..(Len(emitted) - 1) : emitted[i].at < emitted[i + 1].at
    /\ \A i \in 1..Len(emitted) :
         /\ emitted[i].at \in 1..Len(parsed)
         /\ emitted[i].ev.Type = Classify(parsed[emitted[i].at].Content)
    /\ \A j \in 1..Len(parsed) :
         Classify(parsed[j].Content) # "none"
           => \E i \in 1..Len(emitted) : emitted[i].at = j
    /\ result.Warnings = SelectSeq(EmittedEvents, IsWarningEvent)
    /\ result.Errors = SelectSeq(EmittedEvents, IsErrorEvent)

\* A warning, an error and a third event have been emitted, and each list
\* has its one entry.
C13_Witness ==
  /\ sink /\ feed = <<>> /\ Len(emitted) = 3
  /\ Len(result.Warnings) = 1 /\ Len(result.Errors) = 1

\* The line is blank, or none of the six patterns matches it.
MatchesNone(line) ==
  LET t == TrimSpace(line)
  IN \/ t = <<>>
     \/ /\ ~MatchCompile(t) /\ ~MatchDiag(t) /\ ~MatchLink(t)
        /\ ~MatchSign(t) /\ ~MatchSuccess(t) /\ ~MatchFailure(t)

\* C14: a call of parseLine on a line that is blank or that no pattern
\* matches emits no event and leaves Success, Warnings and Errors as they
\* were.
C14_UnrecognizedLineNoEffect ==
  [][(feed # <<>> /\ feed' = Tail(feed) /\ MatchesNone(Head(feed)))
       => (emitted' = emitted /\ result' = result)]_vars

\* A parser that had emitted events and set Success has been fed a line
\* that nothing matches.
C14_Witness ==
  /\ sink /\ Len(parsed) >= 2 /\ MatchesNone(parsed[Len(parsed)].Content)
  /\ ~MatchesNone(parsed[1].Content)
  /\ Len(emitted) >= 1 /\ result.Success

\* C15: after any sequence of lines, Success is true exactly when some line
\* was taken as the success sentinel and no later line was taken as the
\* failure sentinel.
C15_SuccessIffLastSentinel ==
  result.Success <=>
    \E i \in 1..Len(parsed) :
      /\ Classify(parsed[i].Content) = "success"
      /\ \A j \in (i + 1)..Len(parsed) :
           Classify(parsed[j].Content) # "failure"

\* A failure sentinel, then a success sentinel, then another line: Success
\* is true.
C15_Witness ==
  /\ Len(parsed) = 3 /\ result.Success
  /\ Classify(parsed[1].Content) = "failure"
  /\ Classify(parsed[2].Content) = "success"

\* CompileSwift normal arm64 Foo.swift / Foo.swift:10:3: error: missing
\* return / ** BUILD FAILED **
Scenario16 ==
  << <<"CompileSwift", "normal", "arm64", "Foo.swift">>,
     <<"Foo.swift:10:3:", "error:", "missing", "return">>,
     FailureLine >>

\* C16: after the three lines of the scenario a parser with an events
\* channel has emitted exactly the events compileFile, error, failure, in
\* that order, and the Result has Success = false, no warning, and one
\* error with file Foo.swift, line 10, column 3.
C16_ScenarioResult ==
  (sink /\ ParsedLines = Scenario16) =>
    /\ [i \in 1..Len(emitted) |-> emitted[i].ev.Type]
         = <<"compileFile", "error", "failure">>
    /\ emitted[1].ev.File = <<"Foo.swift">>
    /\ ~result.Success
    /\ result.Warnings = <<>>
    /\ Len(result.Errors) = 1
    /\ result.Errors[1].File = <<"Foo.swift">>
    /\ result.Errors[1].Line = 10
    /\ result.Errors[1].Column = 3
    /\ result.Errors[1].Message = <<"missing", "return">>

\* The three lines of the scenario have been parsed.
C16_Witness == sink /\ ParsedLines = Scenario16 /\ feed = <<>>

\* C17: when a rebuild attempt of the watch loop ends, with or without an
\* error, the loop enters the drain of the grace window before it waits for
\* the next change event (the run's context not being cancelled).
C17_DrainAfterEveryRebuild ==
  [][(pc = "cycle" /\ cycleNo > 1 /\ ~ctxDone /\ pc' # "cycle")
       => pc' = "drain"]_vars

\* C18: once the run's context is cancelled, in whatever state the session
\* is, Run returns, and when it has returned after a cancellation no build
\* cycle is in progress and no log stream has a context that is not done.
C18_CancelReturns ==
  /\ ctxDone ~> pc = "returned"
  /\ [](pc = "returned" /\ ctxDone => inFlight = 0 /\ ActiveLogs = {})

\* What holds of cancellation: Run returns or the process has panicked.
CancelReturnsOrPanics == ctxDone ~> (pc = "returned" \/ crashed)

\* The contents of the lines of stream s that were put on the line
\* channel, in channel order: those Build has taken, then those buffered.
SentOf(s) ==
  LET IsOfStream(l) == l.Stream = s
      q == SelectSeq(parsed \o outChan, IsOfStream)
  IN [i \in 1..Len(q) |-> q[i].Content]

\* C19: at every point of an invocation, under every interleaving of the
\* two readers, the lines of stdout on the line channel are, in order, the
\* first lines stdout produced, and likewise for stderr.
C19_PerStreamOrder ==
  \A s \in Streams : SentOf(s) \in Prefixes(hist.script[s])

\* Two different lines of each stream went through the channel, the two
\* streams alternating.
C19_Witness ==
  /\ Len(parsed) = 4
  /\ parsed[1].Stream = "stderr" /\ parsed[2].Stream = "stdout"
  /\ parsed[3].Stream = "stderr" /\ parsed[4].Stream = "stdout"
  /\ parsed[1].Content # parsed[3].Content
  /\ parsed[2].Content # parsed[4].Content

\* C20: in every build cycle the boot command is running only for a device
\* that is not booted, and a cycle that went past the boot step without the
\* command had a booted device.
C20_BootIffNotBooted ==
  /\ (pc = "cycle" /\ step = "boot" /\ phase = "run") => ~devBooted
  /\ (pc = "cycle" /\ step \in {"install", "terminate", "launch"}
        /\ ~InCmds("boot")) => devBooted

\* The available devices of simctl list, of every platform and of the
\* requested one.
Listed == List(simList, "", FALSE)
ListedOfPlatform ==
  LET OfPlatform(d) == d.Platform = cfgPlatform
  IN SelectSeq(Listed, OfPlatform)

\* With no device argument: a device of the requested platform, a booted
\* one if there is one, otherwise the first; an error if there is none.
ResolvedByPlatform ==
  LET devs == ListedOfPlatform
  IN IF devs = <<>> THEN resolved.err # Nil
     ELSE /\ resolved.err = Nil
          /\ \E i \in 1..Len(devs) : devs[i] = resolved.dev
          /\ IF \E i \in 1..Len(devs) : devs[i].State = "Booted"
               THEN resolved.dev.State = "Booted"
               ELSE resolved.dev = devs[1]

\* C21 as stated: with a device argument the device returned has exactly
\* that identifier or that name, and resolution fails if no device has;
\* with none, ResolvedByPlatform.
C21_ResolveExactly ==
  (spc = "resolved" /\ listOk) =>
    IF cfgDeviceName # <<>>
      THEN IF \E i \in 1..Len(Listed) : \/ Listed[i].UDID = cfgDeviceName
                                        \/ Listed[i].Name = cfgDeviceName
             THEN /\ resolved.err = Nil
                  /\ \/ resolved.dev.UDID = cfgDeviceName
                     \/ resolved.dev.Name = cfgDeviceName
             ELSE resolved.err # Nil
      ELSE ResolvedByPlatform

\* How well a device answers the device argument: 1 by identifier, 2 by
\* name without regard to case, 3 by a part of its name without regard to
\* case, 4 not at all.
MatchRank(d) ==
  CASE d.UDID = cfgDeviceName -> 1
    [] d.UDID # cfgDeviceName /\ ToLower(d.Name) = ToLower(cfgDeviceName) -> 2
    [] d.UDID # cfgDeviceName /\ ToLower(d.Name) # ToLower(cfgDeviceName)
         /\ Contains(ToLower(d.Name), ToLower(cfgDeviceName)) -> 3
    [] OTHER -> 4

\* C21, amended: with a device argument the device returned is the first
\* of the best rank among the available devices of all platforms (equal
\* identifier, then equal name without regard to case, then name containing
\* the argument without regard to case), and resolution fails if no device
\* has any of the three; with none, ResolvedByPlatform.
C21_ResolveByRank ==
  (spc = "resolved" /\ listOk) =>
    IF cfgDeviceName # <<>>
      THEN IF \E i \in 1..Len(Listed) : MatchRank(Listed[i]) < 4
             THEN /\ resolved.err = Nil
                  /\ \E i \in 1..Len(Listed) :
                       /\ Listed[i] = resolved.dev
                       /\ \A j \in 1..Len(Listed) :
                            /\ MatchRank(Listed[i]) <= MatchRank(Listed[j])
                            /\ j < i =>
                                 MatchRank(Listed[i]) < MatchRank(Listed[j])
             ELSE resolved.err # Nil
      ELSE ResolvedByPlatform

\* A device argument was answered with a device that has neither that
\* identifier nor that name, while a later device has exactly that name.
C21_Witness ==
  /\ spc = "resolved" /\ cfgDeviceName # <<>> /\ resolved.err = Nil
  /\ resolved.dev.UDID # cfgDeviceName /\ resolved.dev.Name # cfgDeviceName
  /\ \E i \in 1..Len(Listed) : Listed[i].Name = cfgDeviceName

\* The scheme by the stated precedence: the explicit one, else the
\* project's first, else the project's name.
EffectiveScheme ==
  IF cfgScheme # "" THEN cfgScheme
  ELSE IF projSchemes # <<>> THEN projSchemes[1]
  ELSE projName

\* C22: the scheme given to the build, and the one given to FindApp, is the
\* explicit scheme if there is one, otherwise the project's first scheme
\* if it has any, otherwise the project's name.
C22_SchemePrecedence ==
  /\ used.set => used.build = EffectiveScheme
  /\ spc = "found" => used.find = EffectiveScheme

\* What the cycle does: the explicit scheme, else the project's first
\* scheme, else no scheme at all, the same for the build and for FindApp.
SchemeOrNone ==
  LET eff == IF cfgScheme # "" THEN cfgScheme
             ELSE IF projSchemes # <<>> THEN projSchemes[1] ELSE ""
  IN /\ used.set => used.build = eff
     /\ spc = "found" => used.find = eff

\* After a cancellation the Change Event channel of a running Watch is
\* eventually closed.
WatchClosesOut == (ctxDone /\ wpc = "running") ~> outClosed

\* Once Watch has returned after a cancellation no debounce timer is
\* pending.
WatchStopsTimer == [](ctxDone /\ wpc = "done" => ~timerArmed)

\* A timer that is still pending when the context is already cancelled
\* never has its Change Event delivered.
WatchDeliversNothingLate ==
  \A k \in 1..MaxEvents :
    [](ctxDone /\ timerArmed /\ timerSrc = k
         => [](\A d \in delivered : d.src # k))

\* C23: after the context of Watch is cancelled the Change Event channel
\* is eventually closed, a pending debounce timer is stopped, and no Change
\* Event is delivered for a timer that had not fired before the
\* cancellation.
C23_WatchCancelable ==
  /\ WatchClosesOut
  /\ WatchStopsTimer
  /\ WatchDeliversNothingLate

\* C24: on a Change Event the loop cancels the current log stream and
\* enters the build cycle in the same step, without waiting for the stream
\* to end; while the rebuild runs every log context is cancelled; and when
\* the loop goes back to waiting it has started one new log stream.
C24_CancelBuildThenLogs ==
  /\ [](pc = "cycle" /\ cycleNo > 1
          => \A i \in 1..Len(logs) : logs[i].cancelled)
  /\ [][(pc = "wait" /\ pc' = "cycle")
          => /\ logs' = [i \in 1..Len(logs) |->
                          IF i = currentCancel
                            THEN [logs[i] EXCEPT !.cancelled = TRUE]
                            ELSE logs[i]]
             /\ step' = "build" /\ phase' = "start" /\ cmds' = <<>>]_vars
  /\ [][(pc \in {"cycle", "drain"} /\ cycleNo > 1 /\ pc' = "wait")
          => /\ Len(logs') = Len(logs) + 1
             /\ ~logs'[Len(logs')].cancelled
             /\ currentCancel' = Len(logs')]_vars

\* A rebuild has run to its launch and the loop is waiting again, with the
\* stream of the session's start cancelled and the new one current.
C24_Witness ==
  /\ pc = "wait" /\ cycleNo = 2 /\ InCmds("launch") /\ ~ctxDone
  /\ Len(logs) = 2 /\ logs[1].cancelled /\ ~logs[2].cancelled
  /\ currentCancel = 2

\* The steps of a build cycle in their stated order.
StepOrder ==
  <<"build", "find", "extract", "boot", "install", "terminate", "launch">>
Pos(s) == CHOOSE i \in 1..Len(StepOrder) : StepOrder[i] = s
InStepErrs(s) == \E k \in 1..Len(stepErrs) : stepErrs[k] = s

\* The current cycle has executed step s: its command was started, or the
\* step returned an error, or (find) it produced the application path.
Executed(s) == InCmds(s) \/ InStepErrs(s) \/ (s = "find" /\ cycleApp # Nil)

\* C25: the commands of a cycle are issued in the stated order, a step is
\* executed only after all earlier steps (boot being optional), and once a
\* step other than terminate has failed the cycle has ended with that
\* step's error and has executed no later step.
C25_StepsInOrder ==
  /\ \A i, j \in 1..Len(cmds) : i < j => Pos(cmds[i]) < Pos(cmds[j])
  /\ \A i \in 1..Len(StepOrder), j \in 1..Len(StepOrder) :
       (Executed(StepOrder[j]) /\ i < j /\ StepOrder[i] # "boot")
         => Executed(StepOrder[i])
  /\ \A k \in 1..Len(stepErrs) :
       stepErrs[k] # "terminate"
         => /\ pc # "cycle" /\ failStep = stepErrs[k]
            /\ \A i \in 1..Len(StepOrder) :
                 Executed(StepOrder[i]) => i <= Pos(stepErrs[k])

\* The initial cycle failed at install, after build, extract and boot.
C25_Witness ==
  /\ pc = "returned" /\ cycleNo = 1 /\ stepErrs = <<"install">>
  /\ cmds = <<"build", "extract", "boot", "install">>

\* C26: whatever the outcome of the terminate command the cycle goes on
\* to launch, and a cycle never returns the error of terminate.
C26_TerminateBestEffort ==
  /\ [](pc # "cycle" => failStep # "terminate")
  /\ [][(pc = "cycle" /\ step = "terminate"
           /\ (pc' # "cycle" \/ step' # "terminate"))
          => (pc' = "cycle" /\ step' = "launch" /\ phase' = "start")]_vars

\* The terminate command failed, the launch followed, and the rebuild
\* returned no error.
C26_Witness ==
  /\ InStepErrs("terminate") /\ InCmds("terminate") /\ InCmds("launch")
  /\ pc = "drain" /\ failStep = "none" /\ cycleNo > 1

\* C27: the session's application path and identifier are those of the
\* most recent successful build cycle; they change only in the step in
\* which a cycle succeeds, both to the values of that cycle, and the end of
\* a failed rebuild leaves both as they were.
C27_SessionStateFromLastSuccess ==
  /\ [](appPath = lastGood.app /\ bundleID = lastGood.bid)
  /\ [][(appPath' # appPath \/ bundleID' # bundleID)
          => /\ pc = "cycle" /\ step = "launch" /\ phase = "run"
             /\ pc' # "cycle" /\ failStep' = "none"
             /\ appPath' = cycleApp /\ bundleID' = cycleBID]_vars
  /\ [][(pc = "cycle" /\ cycleNo > 1 /\ pc' # "cycle" /\ failStep' # "none")
          => (appPath' = appPath /\ bundleID' = bundleID)]_vars

\* A successful rebuild replaced the identifier of the initial cycle, and a
\* later rebuild that had extracted another identifier failed and left the
\* session's as it was.
C27_Witness ==
  /\ pc = "wait" /\ cycleNo = 3 /\ failStep \in {"install", "launch"}
  /\ logs[1].bid # bundleID
  /\ cycleBID # Nil /\ cycleBID # bundleID

\* A raw event the filter of Watch rejects: its extension is not one of the
\* relevant ones, or its operation is none of write, create, rename, chmod.
Irrelevant(path, ops) ==
  \/ Ext(path) \notin {".swift", ".m", ".h", ".c", ".cpp", ".metal", ".xib",
                       ".storyboard"}
  \/ ops \cap {"Write", "Create", "Rename", "Chmod"} = {}

\* C28: a raw filesystem event with an irrelevant extension or operation
\* kind leaves the watcher as it was: the pending timer is neither armed nor
\* reset, the recorded path is kept, and no timer callback or Change Event
\* has this event as its source.
C28_IrrelevantEventNoEffect ==
  [][\A path \in FsPaths, ops \in FsOps :
       (WatchEvent(path, ops) /\ Irrelevant(path, ops))
         => /\ UNCHANGED <<timerArmed, timerLeft, timerSrc, lastPath, cbs,
                           offers, delivered, wpc, outClosed, stoppedSrc>>
            /\ timerSrc' # nEvents'
            /\ \A c \in cbs' : c.src # nEvents']_vars

\* The second raw event arrived while the timer of the first was pending
\* and part of its delay had passed, and the timer is still the first one's.
C28_Witness ==
  /\ wpc = "running" /\ nEvents = 2
  /\ timerArmed /\ timerSrc = 1 /\ timerLeft < Debounce

\* C29: cmd.Wait is reached only after both readers have finished, and once
\* an error has been put on the error channel no reader is scanning or
\* sending and no further line is put on the line channel.  (An error of
\* the start phase is put there before any reader exists.)
C29_ErrorAfterAllLines ==
  /\ [](/\ xpc \in {"cmdwait", "closeErr", "closeOut", "done"}
        /\ hist.started = "ok"
        => \A s \in Streams : rd[s].st = "done")
  /\ [](hist.waited => \A s \in Streams : rd[s].st = "done")
  /\ [](hist.errSent > 0 => \A s \in Streams : rd[s].st \in {"idle", "done"})
  /\ [][hist.errSent > 0 => Len(outChan') <= Len(outChan)]_vars

\* The process ended by itself with a failure status; its error is on the
\* error channel while lines of both streams, forwarded before it, wait on
\* the line channel.
C29_Witness ==
  /\ ~xctx /\ errChan = <<"exit">> /\ hist.waited
  /\ \E i, j \in 1..Len(outChan) :
       outChan[i].Stream = "stdout" /\ outChan[j].Stream = "stderr"

\* C30: once the invocation's context is cancelled no reader stays at its
\* send: whatever the state of the line channel and of its consumer, both
\* readers finish, the executor goroutine ends and both channels are closed.
C30_CancelUnblocksReaders ==
  xctx ~> (/\ \A s \in Streams : rd[s].st \in {"idle", "done"}
           /\ xpc = "done" /\ outCl /\ errCl)

\* The context is cancelled and Build has returned while the line channel
\* is full and both readers are at their send.
C30_Witness ==
  /\ xctx /\ bpc = "returned"
  /\ Len(outChan) = OutChanCap
  /\ \A s \in Streams : rd[s].st = "send"

\* The recognizers of parseLine in their fixed order, and the first of them
\* whose pattern matches the trimmed line (0 when none does).
RecognizerOrder ==
  <<"compileFile", "diagnostic", "link", "sign", "success", "failure">>

MatchedBy(r, t) ==
  CASE r = "compileFile" -> MatchCompile(t)
    [] r = "diagnostic" -> MatchDiag(t)
    [] r = "link" -> MatchLink(t)
    [] r = "sign" -> MatchSign(t)
    [] r = "success" -> MatchSuccess(t)
    [] r = "failure" -> MatchFailure(t)

MatchingRecognizers(line) ==
  {i \in 1..Len(RecognizerOrder) :
     TrimSpace(line) # <<>> /\ MatchedBy(RecognizerOrder[i], TrimSpace(line))}

FirstRecognizer(line) ==
  IF MatchingRecognizers(line) = {} THEN "none"
  ELSE RecognizerOrder[CHOOSE i \in MatchingRecognizers(line) :
                         \A j \in MatchingRecognizers(line) : i <= j]

\* The event types the first matching recognizer can produce.
TypesOf(r) ==
  IF r = "diagnostic" THEN {"warning", "error"}
  ELSE IF r = "none" THEN {} ELSE {r}

\* The number of fields of the Result that differ between two Results.
Mutations(r1, r2) ==
  Cardinality({f \in {"Success", "Warnings", "Errors"} : r1[f] # r2[f]})

\* C31: a call of parseLine is decided by the first recognizer, in the order
\* compile-file, diagnostic, link, code-sign, success, failure, that matches
\* the line: at most one event is emitted, of that recognizer's type, and at
\* most one field of the Result changes, the list of a diagnostic or the
\* Success flag of a sentinel, whatever later recognizers also match.
C31_FirstMatchWins ==
  [][(feed # <<>> /\ feed' = Tail(feed))
       => LET r == FirstRecognizer(Head(feed))
              new == SubSeq(emitted', Len(emitted) + 1, Len(emitted'))
          IN /\ Len(new) <= 1
             /\ SubSeq(emitted', 1, Len(emitted)) = emitted
             /\ sink => Len(new) = (IF r = "none" THEN 0 ELSE 1)
             /\ \A i \in 1..Len(new) : new[i].ev.Type \in TypesOf(r)
             /\ Mutations(result, result') <= 1
             /\ (result'.Warnings # result.Warnings
                   \/ result'.Errors # result.Errors) => r = "diagnostic"
             /\ r = "diagnostic"
                  => Len(result'.Warnings) + Len(result'.Errors)
                       = Len(result.Warnings) + Len(result.Errors) + 1
             /\ result'.Success # result.Success
                  => r \in {"success", "failure"}
             /\ r = "success" => result'.Success
             /\ r = "failure" => ~result'.Success]_vars

\* After the success sentinel a diagnostic whose message holds the failure
\* sentinel was parsed: one error and one event more, Success still true.
C31_Witness ==
  /\ sink /\ Len(parsed) = 2
  /\ parsed[1].Content = SuccessLine
  /\ parsed[2].Content = <<"Foo.swift:10:3:", "error:", FailureSentinel>>
  /\ Cardinality(MatchingRecognizers(parsed[2].Content)) = 2
  /\ result.Success /\ Len(result.Errors) = 1 /\ Len(emitted) = 2

\* The step in progress ends in this step of the session.
StepEnds == pc = "cycle" /\ phase = "run" /\ (pc' # "cycle" \/ phase' # "run")

\* C32: when the run's context is cancelled while the command of a build
\* cycle step is in progress, the command is stopped: the step ends with an
\* error and never with the command's completion.
C32_CancelStopsEveryStep ==
  [][(StepEnds /\ ctxDone) => stepErrs' # stepErrs]_vars

\* The same for the steps other than the identifier extraction.
CancelStopsBoundSteps ==
  [][(StepEnds /\ ctxDone /\ step # "extract") => stepErrs' # stepErrs]_vars

\* C33: no timer callback of the watcher executes its send on the output
\* channel once Watch has closed that channel.
C33_NoSendOnClosedOut == ~crashed

\* The callback of source src has left cbs in this step.
Gone(src) == \A c \in cbs' : c.src # src

\* The Change Event of source src is received in this step, at `at'.
Received(src, at) ==
  \E d \in delivered' \ delivered : d.src = src /\ d.at = at

\* A Change Event that waited when a successful rebuild ended is still
\* there only while the loop drains, and leaves only by being received in
\* the drain, which starts no rebuild (the run not being cancelled).
DrainTakesWaiting ==
  /\ [](\A c \in cbs : c.pend = "ok" => (pc = "drain" \/ ctxDone))
  /\ [][\A c \in cbs :
          (cycleNo > 1 /\ c.pend = "ok" /\ Gone(c.src) /\ ~ctxDone')
            => /\ Received(c.src, "drain")
               /\ pc = "drain" /\ pc' = "drain"
               /\ cycleNo' = cycleNo /\ cmds' = cmds]_vars

\* A Change Event that waited when a rebuild failed leaves only by being
\* received by the watch loop, which starts the next rebuild, and no time
\* passes before that: the clocks move only where a filesystem event
\* arrives and restarts them.
LoopTakesWaiting ==
  /\ [][\A c \in cbs :
          (c.pend = "fail" /\ Gone(c.src) /\ ~ctxDone')
            => /\ Received(c.src, "wait")
               /\ pc = "wait" /\ pc' = "cycle"
               /\ cycleNo' = cycleNo + 1 /\ cmds' = <<>>]_vars
  /\ [][(/\ pc = "wait" /\ ~ctxDone /\ cycleNo < MaxCycles
         /\ \E c \in cbs : c.pend = "fail"
         /\ nEvents' = nEvents)
          => (sinceLast' = sinceLast /\ timerLeft' = timerLeft)]_vars

\* The recorded filesystem event of identifier id.
FsEvent(id) == fsHist[CHOOSE k \in 1..Len(fsHist) : fsHist[k].id = id]

\* No rebuild is started by the Change Event of a change that was made
\* during the latest rebuild, that rebuild having succeeded, when no change
\* was made after it.
NoRebuildForChangeInRebuild ==
  [][(pc = "wait" /\ pc' = "cycle" /\ cycleNo > 1 /\ failStep = "none")
       => \A d \in delivered' \ delivered :
            ~(/\ FsEvent(d.src).inCycle = cycleNo
              /\ d.src = fsHist[Len(fsHist)].id)]_vars

\* C34 as stated: the drain takes the Change Events that wait when a
\* successful rebuild ends, the loop takes those that wait when a rebuild
\* fails and rebuilds, and no source change made during a successful rebuild
\* is rebuilt before a later change.
C34_ChangeDuringRebuild ==
  /\ DrainTakesWaiting
  /\ LoopTakesWaiting
  /\ NoRebuildForChangeInRebuild

\* C34, amended: the drain takes the Change Events that wait when a
\* successful rebuild ends and starts no rebuild for them, and the loop
\* takes those that wait when a rebuild fails and starts the next rebuild.
C34_WaitingEventAtCycleEnd ==
  /\ DrainTakesWaiting
  /\ LoopTakesWaiting

\* A Change Event that waited when a successful rebuild ended was received
\* in the drain; the loop waits again and no further rebuild was started.
C34_Witness ==
  /\ pc = "wait" /\ cycleNo = 2 /\ failStep = "none" /\ ~ctxDone
  /\ \E d \in delivered : d.pend = "ok" /\ d.at = "drain" /\ d.inBuild

\* C35: in a one-shot run whose context is cancelled while the logs are
\* streamed, so that the log process is killed, streamLogs (and with it Run)
\* returns nil.
C35_CancelledStreamReturnsNil ==
  [][(/\ lmode = "oneshot" /\ xctx /\ proc = "killed"
      /\ slpc = "loop" /\ slpc' = "returned")
       => slRet' = "nil"]_vars

\* C36: a log stream of the watch loop whose context is cancelled winds
\* down: the goroutine of Stream closes its line channel and the relay
\* goroutine that ranges over it ends.
C36_LogStreamWindsDown ==
  (lmode = "watch" /\ xctx)
    ~> (lgpc = "done" /\ logOutCl /\ slpc = "returned")

\* The handle was invoked while the log process ran and lines were on their
\* way: one waits in the stream's channel, one is held by the goroutine of
\* Stream for its send.
C36_Witness ==
  /\ lmode = "watch" /\ xctx /\ proc = "killed"
  /\ lgpc = "sendLine" /\ logOut # <<>> /\ slpc = "loop"

\* The log process of a stream ends in this step.
StreamEnded ==
  /\ Len(logs') = Len(logs)
  /\ \E i \in 1..Len(logs) : logs'[i].ended /\ ~logs[i].ended

\* C37: in a watch session the end of the log process changes nothing of
\* the session: the loop stays at its select and no watcher or cycle
\* variable changes; and a log stream is started only by the step in which
\* a rebuild attempt ends (with an error, or with its drain) or in which
\* the session starts.
C37_StreamEndIgnored ==
  /\ [][StreamEnded
          => /\ pc = "wait" /\ pc' = "wait"
             /\ UNCHANGED <<ctxDone, crashed, cycleNo, currentCancel,
                            bundleID, appPath, inFlight, watchVars>>]_vars
  /\ [][(cfgWatch /\ Len(logs') > Len(logs))
          => /\ pc' = "wait"
             /\ \/ pc = "drain"
                \/ pc = "cycle" /\ cycleNo > 1 /\ failStep' # "none"
                \/ pc = "cycle" /\ cycleNo = 1 /\ failStep' = "none"]_vars
  /\ [](pc = "returned" /\ cfgWatch /\ cycleNo >= 1 /\ failStep = "none"
          => (ctxDone \/ outClosed \/ wpc = "idle"))

\* The log process of the first stream ended while the loop waited; a later
\* change was rebuilt and the rebuild's end started the stream that runs
\* now.
C37_Witness ==
  /\ cfgWatch /\ pc = "wait" /\ ~ctxDone /\ cycleNo >= 2 /\ Len(logs) >= 2
  /\ logs[1].ended
  /\ LogActive(Len(logs)) /\ ~logs[Len(logs)].ended

\* ---------------------------------------------------------------------
\* C38: when device resolution or the initial build cycle fails, Run
\* returns the error in one-shot and in watch mode alike, and no watcher
\* and no log stream has been started; a failed cycle is downgraded to
\* the retained session only when it is a rebuild that follows a
\* successful initial cycle.
\* ---------------------------------------------------------------------
NothingStarted ==
  /\ pc = "returned" /\ logs = <<>> /\ currentCancel = 0
  /\ wpc = "idle" /\ nEvents = 0 /\ cbs = {}

C38_InitialFailureReturned ==
  /\ []((spc = "resolved" /\ resolved.err # Nil)
          => (NothingStarted /\ failStep = "resolve" /\ cycleNo = 0
              /\ cmds = <<>>))
  /\ []((cycleNo = 1 /\ failStep \notin {"none", "resolve"})
          => (NothingStarted /\ lastGood.bid = Nil))
  /\ [][(inFlight' < inFlight /\ failStep' # "none" /\ pc' # "returned")
          => (/\ cfgWatch /\ cycleNo > 1 /\ lastGood.bid # Nil
              /\ wpc # "idle" /\ pc' = "wait"
              /\ appPath' = appPath /\ bundleID' = bundleID)]_vars

\* The initial build cycle of a watch session has failed at install.
C38_Witness ==
  /\ cfgWatch /\ spc = "resolved" /\ resolved.err = Nil
  /\ cycleNo = 1 /\ failStep = "install" /\ pc = "returned"

====
